---- MODULE Spec2Model ----
(***************************************************************************)
(* A model of the Shengji game engine: env/Game.py (the stage and turn     *)
(* orchestrator, Game.run_action and Game.get_observation) and             *)
(* env/utils.py (card ranking, seats, declarations).                       *)
(*                                                                         *)
(* The engine plays with 108 cards: 25 per seat and a kitty of 8.  The     *)
(* model keeps the engine's structure and scales the three sizes down:     *)
(* HandSize cards per seat, KittySize cards in the kitty and a deck of     *)
(* 4 * HandSize + KittySize cards, a prefix of MasterDeck.  Every place    *)
(* where the source writes 25, 100, 8 or 108 reads full_hand, DealTotal,   *)
(* KittySize or DeckSize here; full_hand is HandSize in the games that are *)
(* dealt, and LeadHandSize in the openings of a round that SpecLead        *)
(* starts from.                                                            *)
(*                                                                         *)
(* env/CardSet.py, env/Actions.py and env/Observation.py are not part of   *)
(* the available source; the operators that stand for them are modelled    *)
(* from the specification and are marked so where they are defined.        *)
(***************************************************************************)
EXTENDS Integers, Sequences, FiniteSets, TLC

(***************************************************************************)
(* Bounds of the model.                                                    *)
(***************************************************************************)
HandSize == 2
KittySize == 2
MaxPoints == 240
LeadHandSize == 4
BidHandSize == 3

DealTotal == 4 * HandSize
DeckSize == DealTotal + KittySize

(***************************************************************************)
(* env/utils.py: cards.  A card is its index in ORDERING: suit by suit     *)
(* (diamond, club, heart, spade), ace down to two, then the two jokers.    *)
(***************************************************************************)
XJ == 52
DJ == 53
SuitNames == <<"D", "C", "H", "S">>
NaturalSuits == {"D", "C", "H", "S"}
TRUMP == "T"

NUMERIC_RANK(card) == 14 - (card % 13)
NaturalSuit(card) == SuitNames[(card \div 13) + 1]
SuitIndex(s) == CHOOSE i \in 1..4 : SuitNames[i] = s
CardOf(rank, s) == (SuitIndex(s) - 1) * 13 + (14 - rank)

is_NT(suit) == suit = "XJ" \/ suit = "DJ"

\* A faulty variant: a card of the dominant rank keeps its natural suit.
get_suit_by_suit_only(card, dominant_suit, dominant_rank) ==
    IF card = XJ \/ card = DJ THEN TRUMP
    ELSE IF NaturalSuit(card) = dominant_suit
         THEN TRUMP
         ELSE NaturalSuit(card)

get_suit(card, dominant_suit, dominant_rank) ==
    IF card = XJ \/ card = DJ THEN TRUMP
    ELSE IF NUMERIC_RANK(card) = dominant_rank \/ NaturalSuit(card) = dominant_suit
         THEN TRUMP
         ELSE NaturalSuit(card)

\* A faulty variant: ranks below the dominant rank are not shifted.
get_rank_unshifted(card, dominant_suit, dominant_rank) ==
    IF card = DJ THEN 18
    ELSE IF card = XJ THEN 17
    ELSE IF NUMERIC_RANK(card) = dominant_rank
            /\ (NaturalSuit(card) = dominant_suit \/ is_NT(dominant_suit))
         THEN 16
    ELSE IF NUMERIC_RANK(card) = dominant_rank THEN 15
    ELSE NUMERIC_RANK(card)

get_rank(card, dominant_suit, dominant_rank) ==
    IF card = DJ THEN 18
    ELSE IF card = XJ THEN 17
    ELSE IF NUMERIC_RANK(card) = dominant_rank
            /\ (NaturalSuit(card) = dominant_suit \/ is_NT(dominant_suit))
         THEN 16
    ELSE IF NUMERIC_RANK(card) = dominant_rank THEN 15
    ELSE IF NUMERIC_RANK(card) < dominant_rank THEN NUMERIC_RANK(card) + 1
    ELSE NUMERIC_RANK(card)

(***************************************************************************)
(* env/utils.py: seats.                                                    *)
(***************************************************************************)
Seats == {"N", "W", "S", "E"}
None == "None"

next_position(p) ==
    CASE p = "N" -> "W" [] p = "W" -> "S" [] p = "S" -> "E" [] p = "E" -> "N"

last_position(p) ==
    CASE p = "N" -> "E" [] p = "W" -> "N" [] p = "S" -> "W" [] p = "E" -> "S"

(***************************************************************************)
(* env/utils.py: declarations.                                             *)
(***************************************************************************)
Declaration(suit, level, position) ==
    [suit |-> suit, level |-> level, absolute_position |-> position]

\* Declaration.get_card: the card shown and how many copies of it.
get_card_token(d, dominant_rank) ==
    IF d.suit = "XJ" THEN XJ
    ELSE IF d.suit = "DJ" THEN DJ
    ELSE CardOf(dominant_rank, d.suit)

\* A faulty variant: a declaration always shows one card.
get_card_count_one(d) == 1

get_card_count(d) == IF d.level = 0 THEN 1 ELSE 2

\* A faulty variant: a single card is ranked by its suit like a pair.
chaodi_level_any_level(suit, level) ==
    CASE suit = "D" -> 1
      [] suit = "C" -> 2
      [] suit = "H" -> 3
      [] suit = "S" -> 4
      [] suit = "XJ" -> 5
      [] OTHER -> 6

chaodi_level(suit, level) ==
    IF level >= 1
    THEN CASE suit = "D" -> 1
           [] suit = "C" -> 2
           [] suit = "H" -> 3
           [] suit = "S" -> 4
           [] suit = "XJ" -> 5
           [] OTHER -> 6
    ELSE 0

(***************************************************************************)
(* The deck.  Game.__init__ takes an explicit deck ordering; the model's   *)
(* deck is the first DeckSize cards of MasterDeck.  No card occurs more    *)
(* than twice, as in the two-deck pack.                                    *)
(***************************************************************************)
MasterDeck ==
    << CardOf(2, "D"),  CardOf(2, "C"),  CardOf(13, "H"), CardOf(14, "H"),
       CardOf(2, "D"),  CardOf(2, "C"),  CardOf(5, "H"),  CardOf(10, "H"),
       DJ,              CardOf(10, "S"), CardOf(13, "S"), CardOf(5, "S"),
       DJ,              CardOf(12, "H"), CardOf(14, "S"), CardOf(13, "H"),
       CardOf(5, "H"),  XJ,              CardOf(3, "S"),  XJ >>

card_list == SubSeq(MasterDeck, 1, DeckSize)
Cards == {card_list[i] : i \in 1..DeckSize}


(***************************************************************************)
(* env/CardSet.py (modelled from the specification): a CardSet is a        *)
(* mapping from card to count, every card of the pack present.             *)
(***************************************************************************)
EmptyCardSet == [c \in Cards |-> 0]

\* The distinct cards of the pack, in the order of their first occurrence.
FirstAt(i) == \A j \in 1..(i - 1) : card_list[j] # card_list[i]

RECURSIVE CardSeqTo(_)
CardSeqTo(i) ==
    IF i = 0 THEN <<>>
    ELSE IF FirstAt(i) THEN Append(CardSeqTo(i - 1), card_list[i])
    ELSE CardSeqTo(i - 1)

CardSeq == CardSeqTo(DeckSize)

RECURSIVE SumTo(_, _, _)
SumTo(cs, S, i) ==
    IF i = 0 THEN 0
    ELSE (IF CardSeq[i] \in S THEN cs[CardSeq[i]] ELSE 0) + SumTo(cs, S, i - 1)

SumOver(cs, S) == SumTo(cs, S, Len(CardSeq))

size(cs) == SumOver(cs, Cards)

add_card(cs, card, count) == [cs EXCEPT ![card] = @ + count]
\* remove_card and remove_cardset fail when more is removed than present;
\* the callers test has_cards / has_cardset first and model the failure.
has_cards(cs, card, count) == card \in Cards /\ cs[card] >= count
remove_card(cs, card, count) == [cs EXCEPT ![card] = @ - count]
has_cardset(cs, other) == \A c \in Cards : cs[c] >= other[c]
add_cardset(cs, other) == [c \in Cards |-> cs[c] + other[c]]
remove_cardset(cs, other) == [c \in Cards |-> cs[c] - other[c]]

\* CardSet.new_deck: the full pack.
new_deck == [c \in Cards |-> Cardinality({i \in 1..DeckSize : card_list[i] = c})]

SuitCards(suit, dominant_suit, dominant_rank) ==
    {c \in Cards : get_suit(c, dominant_suit, dominant_rank) = suit}

count_suit(cs, suit, dominant_suit, dominant_rank) ==
    SumOver(cs, SuitCards(suit, dominant_suit, dominant_rank))

filter_by_suit(cs, suit, dominant_suit, dominant_rank) ==
    [c \in Cards |->
        IF get_suit(c, dominant_suit, dominant_rank) = suit THEN cs[c] ELSE 0]

\* Face value of the point-bearing ranks: 5 counts 5, 10 and K count 10.
CardPoints(card) ==
    IF card = XJ \/ card = DJ THEN 0
    ELSE IF NUMERIC_RANK(card) = 5 THEN 5
    ELSE IF NUMERIC_RANK(card) = 10 \/ NUMERIC_RANK(card) = 13 THEN 10
    ELSE 0

total_points(cs) == SumOver([c \in Cards |-> cs[c] * CardPoints(c)], Cards)

\* How many copies of the card that declares `suit` the hand holds.
get_count(cs, suit, dominant_rank) ==
    LET card == get_card_token([suit |-> suit], dominant_rank)
    IN IF card \in Cards THEN cs[card] ELSE 0

\* The (suit, level) pairs a hand can declare: one dominant-rank card of a
\* suit is level 0, a pair of them level 1, a pair of small jokers level 2,
\* a pair of big jokers level 3.
trump_declaration_options(cs, dominant_rank) ==
    {<<s, get_count(cs, s, dominant_rank) - 1>> :
        s \in {x \in NaturalSuits : get_count(cs, x, dominant_rank) >= 1}}
    \cup (IF get_count(cs, "XJ", dominant_rank) = 2 THEN {<<"XJ", 2>>} ELSE {})
    \cup (IF get_count(cs, "DJ", dominant_rank) = 2 THEN {<<"DJ", 3>>} ELSE {})

(***************************************************************************)
(* env/CardSet.py (modelled from the specification): moves.  A move is the *)
(* CardSet it plays; its shape is read off its components: tractors (runs  *)
(* of pairs of consecutive effective rank in one effective suit), pairs    *)
(* and singles.                                                            *)
(***************************************************************************)
Support(cs) == {c \in Cards : cs[c] > 0}
PairCards(cs) == {c \in Cards : cs[c] >= 2}
Single(c) == [x \in Cards |-> IF x = c THEN 1 ELSE 0]
PairsOf(T) == [x \in Cards |-> IF x \in T THEN 2 ELSE 0]
Min(a, b) == IF a < b THEN a ELSE b
MaxOf(S) == CHOOSE r \in S : \A q \in S : q <= r
MinOf(S) == CHOOSE r \in S : \A q \in S : r <= q

RankSet(T, ds, dr) == {get_rank(c, ds, dr) : c \in T}
TopRank(T, ds, dr) == MaxOf(RankSet(T, ds, dr))

\* n distinct consecutive ranks.
IsRun(ranks, n) ==
    /\ Cardinality(ranks) = n
    /\ \A r \in ranks : (r + 1) \in ranks \/ \A q \in ranks : q <= r

\* T is a tractor: at least two pairs, one effective suit, consecutive
\* effective ranks.
IsTractor(T, ds, dr) ==
    /\ Cardinality(T) >= 2
    /\ Cardinality({get_suit(c, ds, dr) : c \in T}) = 1
    /\ IsRun(RankSet(T, ds, dr), Cardinality(T))

Tractors(cs, ds, dr) == {T \in SUBSET PairCards(cs) : IsTractor(T, ds, dr)}

\* CardSet.get_leading_moves: every single, pair and tractor of the hand.
get_leading_moves(cs, ds, dr) ==
    {Single(c) : c \in Support(cs)}
    \cup {PairsOf({c}) : c \in PairCards(cs)}
    \cup {PairsOf(T) : T \in Tractors(cs, ds, dr)}

Component(type, cards, ds, dr) ==
    [type |-> type, cards |-> cards, len |-> Cardinality(cards),
     top |-> TopRank(cards, ds, dr)]

Longest(ts) == CHOOSE x \in ts : \A y \in ts : Cardinality(y) <= Cardinality(x)

\* The components of a group: its longest tractors first, then the pairs,
\* then the singles.
RECURSIVE Components(_, _, _)
ComponentsWith(cs, t, ds, dr) ==
    IF t # {}
    THEN {Component("tractor", t, ds, dr)}
         \cup Components(remove_cardset(cs, PairsOf(t)), ds, dr)
    ELSE {Component(IF cs[c] >= 2 THEN "pair" ELSE "single", {c}, ds, dr) :
             c \in Support(cs)}

LongestOrNone(ts) == IF ts = {} THEN {} ELSE Longest(ts)

Components(cs, ds, dr) ==
    ComponentsWith(cs, LongestOrNone(Tractors(cs, ds, dr)), ds, dr)

ComponentCards(k) == IF k.type = "single" THEN Single(CHOOSE c \in k.cards : TRUE)
                     ELSE PairsOf(k.cards)

\* The shape of a group: how many components of each type and length.
ShapeOf(ks) ==
    {<<t, l, Cardinality({k \in ks : k.type = t /\ k.len = l})>> :
        t \in {k.type : k \in ks}, l \in {k.len : k \in ks}}

\* A component's weight in a comparison: bigger types first, then longer,
\* then higher.
Weight(k) ==
    (CASE k.type = "single" -> 0 [] k.type = "pair" -> 10000 [] OTHER -> 20000)
    + 100 * k.len + k.top

\* The component a group is compared by: the strongest of its biggest type.
KeyOf(ks) == CHOOSE k \in ks : \A j \in ks : Weight(j) <= Weight(k)

\* The effective suit of a group: that of its first card.
MoveSuit(cs, ds, dr) == get_suit(MinOf(Support(cs)), ds, dr)

OneSuit(cs, ds, dr) == Cardinality({get_suit(c, ds, dr) : c \in Support(cs)}) = 1

\* MoveType.get_multiplier: twice the size of the group's key component.
MultiplierOf(k) == IF k.type = "single" THEN 2 ELSE 4 * k.len
get_multiplier(cs, ds, dr) == MultiplierOf(KeyOf(Components(cs, ds, dr)))

\* The sub-multisets of cs, over the cards S, that hold n cards.
RECURSIVE SubCardSets(_, _, _)
PickFrom(cs, S, n, c) ==
    UNION {{add_card(m, c, k) : m \in SubCardSets(cs, S \ {c}, n - k)} :
              k \in 0..Min(cs[c], n)}

SubCardSets(cs, S, n) ==
    IF n = 0 THEN {EmptyCardSet}
    ELSE IF S = {} THEN {}
    ELSE PickFrom(cs, S, n, MinOf(S))

\* CardSet.get_matching_moves: the answers to a led group.  A seat that
\* holds enough cards of the led effective suit answers from that suit, with
\* as many pairs as the lead has and the suit allows; a seat that holds
\* fewer plays them all and fills up with any other cards.
NumPairs(cs) == Cardinality(PairCards(cs))

MatchingFrom(cs, inSuit, n, pairs) ==
    IF size(inSuit) >= n
    THEN {m \in SubCardSets(inSuit, Support(inSuit), n) :
             NumPairs(m) >= Min(pairs, NumPairs(inSuit))}
    ELSE {add_cardset(inSuit, r) :
             r \in SubCardSets(remove_cardset(cs, inSuit),
                               Support(cs) \ Support(inSuit), n - size(inSuit))}

get_matching_moves(cs, lead, ds, dr) ==
    MatchingFrom(cs, filter_by_suit(cs, MoveSuit(lead, ds, dr), ds, dr),
                 size(lead), NumPairs(lead))

\* How strong an answer is against the lead: 0 when it cannot win (another
\* suit, or another shape), else its key rank, trump above the led suit.
StrengthFrom(one_suit, suit, lead_suit, same_shape, top) ==
    IF one_suit /\ suit \in {lead_suit, TRUMP} /\ same_shape
    THEN top + (IF suit = TRUMP /\ lead_suit # TRUMP THEN 100 ELSE 0)
    ELSE 0

StrengthWith(cs, ks, lead, kl, ds, dr) ==
    StrengthFrom(OneSuit(cs, ds, dr), MoveSuit(cs, ds, dr), MoveSuit(lead, ds, dr),
                 ShapeOf(ks) = ShapeOf(kl), KeyOf(ks).top)

Strength(cs, lead, ds, dr) ==
    StrengthWith(cs, Components(cs, ds, dr), lead, Components(lead, ds, dr), ds, dr)

\* The first index (from 0) of the greatest strength.
FirstMax(s) ==
    (CHOOSE i \in 1..4 : /\ \A j \in 1..4 : s[j] <= s[i]
                         /\ \A j \in 1..(i - 1) : s[j] < s[i]) - 1

\* CardSet.round_winner: the index (from 0) of the winning group among the
\* four played; of equally strong groups the earlier wins.
round_winner(moves, ds, dr) ==
    FirstMax([i \in 1..4 |-> Strength(moves[i], moves[1], ds, dr)])

\* A component of a lead is beaten by a hand that holds, in the same
\* effective suit, a component of the same type and length and a higher rank.
BeatsIn(h, k, ds, dr) ==
    CASE k.type = "single" ->
           \E c \in Support(h) : get_rank(c, ds, dr) > k.top
      [] k.type = "pair" ->
           \E c \in PairCards(h) : get_rank(c, ds, dr) > k.top
      [] OTHER ->
           \E T \in Tractors(h, ds, dr) :
              Cardinality(T) = k.len /\ TopRank(T, ds, dr) > k.top

SafeAmong(ks, suit, other_hands, ds, dr) ==
    {k \in ks : \A h \in other_hands :
                   ~BeatsIn(filter_by_suit(h, suit, ds, dr), k, ds, dr)}

SafeComponents(move, other_hands, ds, dr) ==
    SafeAmong(Components(move, ds, dr), MoveSuit(move, ds, dr), other_hands, ds, dr)

\* CardSet.is_legal_combo: a group of several components is legal when no
\* other hand beats any of them.
LegalWith(ks, safe) == Cardinality(ks) <= 1 \/ safe = ks

is_legal_combo(move, other_hands, ds, dr) ==
    LegalWith(Components(move, ds, dr), SafeComponents(move, other_hands, ds, dr))

RECURSIVE UnionCards(_)
UnionRest(ks, k) == add_cardset(ComponentCards(k), UnionCards(ks \ {k}))
UnionCards(ks) ==
    IF ks = {} THEN EmptyCardSet ELSE UnionRest(ks, CHOOSE x \in ks : TRUE)

Weakest(ks) == CHOOSE k \in ks : \A j \in ks :
                  j.top > k.top \/ (j.top = k.top /\ Weight(j) >= Weight(k))

\* The penalty move of an illegal group: its safe components; when none is
\* safe, its weakest component.
PenaltyWith(ks, safe) ==
    IF safe # {} THEN UnionCards(safe) ELSE ComponentCards(Weakest(ks))

penalty_move(move, other_hands, ds, dr) ==
    PenaltyWith(Components(move, ds, dr), SafeComponents(move, other_hands, ds, dr))

(***************************************************************************)
(* env/Game.py: the state of a Game, and of the driver that calls it.      *)
(***************************************************************************)
VARIABLES
    hands,                          \* seat -> CardSet
    public_cards,                   \* seat -> CardSet
    unplayed_cards,                 \* CardSet
    deck_pos,                       \* cards the deck iterator has yielded
    kitty,                          \* CardSet
    draw_order,                     \* sequence of <<seat, card>>
    round_history,                  \* sequence of [leader, moves]
    stage,
    kitty_owner,
    declarations,
    current_declaration_turn,
    initial_declaration_position,
    is_initial_game,
    dealer_position,
    opponent_points,
    defender_points,
    game_ended,
    points_per_round,
    final_opponent_reward,          \* <<>> is None, <<r>> is r
    final_defender_reward,
    enable_chaodi,
    current_chaodi_turn,
    initial_chaodi_position,
    chaodi_times,                   \* seat -> count
    enable_combos,
    combo_alternation,
    consecutive_moves,
    next_player,                    \* the seat the last call returned
    reward,                         \* the reward it returned, in tenths
    status,                         \* "ok", or "error" when it raised
    last_call,                      \* the call last made: kind and seat
    random_calls,                   \* draws from the random source so far
    misused,                        \* a call outside the caller's contract was made
    pure_call,                      \* the last call of a function of utils.py made
                                    \* on its own: arguments and results, <<>> if none
    full_hand                       \* the cards of a full hand (25 in the source)

cardVars == <<hands, public_cards, unplayed_cards, deck_pos, kitty, draw_order>>
declVars == <<declarations, current_declaration_turn, initial_declaration_position,
              dealer_position, kitty_owner>>
chaodiVars == <<current_chaodi_turn, initial_chaodi_position, chaodi_times>>
playVars == <<round_history, consecutive_moves>>
scoreVars == <<opponent_points, defender_points, points_per_round, game_ended,
               final_opponent_reward, final_defender_reward>>
configVars == <<is_initial_game, enable_chaodi, enable_combos, combo_alternation,
                pure_call, full_hand>>
gameVars == <<cardVars, declVars, chaodiVars, playVars, scoreVars, configVars, stage>>
returnVars == <<next_player, reward>>
vars == <<gameVars, returnVars, status, last_call, random_calls, misused>>

dominant_rank == 2
combo_penalty == 1

\* A faulty variant: the declarations are read only until play begins.
dominant_suit_until_play ==
    IF declarations # <<>> /\ stage # "PLAY"
    THEN declarations[Len(declarations)].suit ELSE "XJ"

dominant_suit == IF declarations # <<>> THEN declarations[Len(declarations)].suit ELSE "XJ"

HandsTotal == size(hands["N"]) + size(hands["W"]) + size(hands["S"]) + size(hands["E"])

game_started == HandsTotal > 0 \/ game_ended

\* The configurations a game is constructed with: the fixed dealer seat
\* (None: not fixed), enable_chaodi, enable_combos, combo_alternation.
Configs ==
    { <<None, TRUE, FALSE, FALSE>>,
      <<"N", FALSE, TRUE, FALSE>>,
      <<"S", TRUE, TRUE, TRUE>> }

\* The configuration of the games in which the caller breaks its contract.
MisuseConfigs ==
    { <<"N", FALSE, FALSE, FALSE>> }

\* Game.__init__.
InitConfig(configs) ==
    /\ hands = [p \in Seats |-> EmptyCardSet]
    /\ public_cards = [p \in Seats |-> EmptyCardSet]
    /\ unplayed_cards = new_deck
    /\ deck_pos = 0
    /\ kitty = EmptyCardSet
    /\ draw_order = <<>>
    /\ round_history = <<>>
    /\ stage = "DECLARE"
    /\ \E cfg \in configs :
          /\ dealer_position = cfg[1]
          /\ enable_chaodi = cfg[2]
          /\ enable_combos = cfg[3]
          /\ combo_alternation = cfg[4]
    /\ kitty_owner = dealer_position
    /\ declarations = <<>>
    /\ current_declaration_turn = None
    /\ initial_declaration_position = None
    /\ is_initial_game = (dealer_position = None)
    /\ opponent_points = 0
    /\ defender_points = 0
    /\ game_ended = FALSE
    /\ points_per_round = <<>>
    /\ final_opponent_reward = <<>>
    /\ final_defender_reward = <<>>
    /\ current_chaodi_turn = None
    /\ initial_chaodi_position = None
    /\ chaodi_times = [p \in Seats |-> 0]
    /\ consecutive_moves = 0
    /\ next_player = None
    /\ reward = 0
    /\ status = "ok"
    /\ last_call = [kind |-> "None", player |-> None]
    /\ random_calls = 0
    /\ misused = FALSE
    /\ pure_call = <<>>
    /\ full_hand = HandSize

Init == InitConfig(Configs)

\* A faulty variant: the first player is drawn at random even when the
\* dealer is fixed.
OrRandom_always(x) == Seats

\* AbsolutePosition.random() where the code calls it, the seat itself where it
\* does not: `x or AbsolutePosition.random()`.
OrRandom(x) == IF x = None THEN Seats ELSE {x}
RandomDraws(x) == IF x = None THEN 1 ELSE 0

\* Game.start_game.
start_game ==
    /\ ~game_started
    /\ deck_pos = 0
    /\ \E first_player \in OrRandom(dealer_position) :
          /\ hands' = [hands EXCEPT ![first_player] = add_card(@, card_list[1], 1)]
          /\ draw_order' = Append(draw_order, <<first_player, card_list[1]>>)
          /\ next_player' = first_player
    /\ deck_pos' = 1
    /\ random_calls' = random_calls + RandomDraws(dealer_position)
    /\ last_call' = [kind |-> "start_game", player |-> None]
    /\ UNCHANGED <<public_cards, unplayed_cards, kitty, declVars, chaodiVars, playVars,
                   scoreVars, configVars, stage, reward, status, misused>>

\* A call that raises before it changed anything.
Raise ==
    /\ status' = "error"
    /\ UNCHANGED <<gameVars, returnVars, random_calls>>

\* A faulty variant: a call that ends the game still names a seat, the dealer.
Return_dealer(position, r) ==
    /\ next_player' = IF position = None THEN dealer_position ELSE position
    /\ reward' = r
    /\ status' = "ok"

Return(position, r) ==
    /\ next_player' = position
    /\ reward' = r
    /\ status' = "ok"

\* A faulty variant: the card is taken from the back of the pack.
DrawCardTo_from_back(position) ==
    /\ hands' = [hands EXCEPT ![position] = add_card(@, card_list[DeckSize - deck_pos], 1)]
    /\ draw_order' = Append(draw_order, <<position, card_list[DeckSize - deck_pos]>>)
    /\ deck_pos' = deck_pos + 1

\* next(self.deck) into a hand.
DrawCardTo(position) ==
    /\ hands' = [hands EXCEPT ![position] = add_card(@, card_list[deck_pos + 1], 1)]
    /\ draw_order' = Append(draw_order, <<position, card_list[deck_pos + 1]>>)
    /\ deck_pos' = deck_pos + 1

\* A faulty variant: the cards left in the deck are dropped, not dealt.
RemainingCards_dropped == [c \in Cards |-> 0]

\* `for remaining_card in self.deck: hands[dealer].add_card(remaining_card)`.
RemainingCards ==
    [c \in Cards |-> Cardinality({i \in (deck_pos + 1)..DeckSize : card_list[i] = c})]

\* run_action, DontDeclareAction.
DontDeclareAction(player_position) ==
    IF current_declaration_turn = player_position
    THEN IF next_position(player_position) = initial_declaration_position
         THEN \E dealer \in OrRandom(dealer_position) :
                /\ current_declaration_turn' = None
                /\ stage' = "KITTY"
                /\ dealer_position' = dealer
                /\ random_calls' = random_calls + RandomDraws(dealer_position)
                /\ hands' = [hands EXCEPT ![dealer] = add_cardset(@, RemainingCards)]
                /\ deck_pos' = DeckSize
                /\ Return(dealer, 0)
                /\ UNCHANGED <<public_cards, unplayed_cards, kitty, draw_order,
                               declarations, initial_declaration_position, kitty_owner,
                               chaodiVars, playVars, scoreVars, configVars>>
         ELSE /\ current_declaration_turn' = next_position(current_declaration_turn)
              /\ Return(next_position(current_declaration_turn), 0)
              /\ UNCHANGED <<cardVars, declarations, initial_declaration_position,
                             dealer_position, kitty_owner, chaodiVars, playVars,
                             scoreVars, configVars, stage, random_calls>>
    ELSE IF HandsTotal < DealTotal
    THEN IF size(hands[next_position(player_position)]) >= full_hand
         THEN Raise    \* assert: "Current player already has 25 cards"
         ELSE IF deck_pos >= DeckSize
         THEN Raise    \* next() on the exhausted deck: StopIteration
         ELSE /\ DrawCardTo(next_position(player_position))
              /\ Return(next_position(player_position), 0)
              /\ UNCHANGED <<public_cards, unplayed_cards, kitty, declVars, chaodiVars,
                             playVars, scoreVars, configVars, stage, random_calls>>
    ELSE /\ initial_declaration_position' = next_position(player_position)
         /\ current_declaration_turn' = next_position(player_position)
         /\ Return(next_position(player_position), 0)
         /\ UNCHANGED <<cardVars, declarations, dealer_position, kitty_owner, chaodiVars,
                        playVars, scoreVars, configVars, stage, random_calls>>

\* run_action, DeclareAction.
DeclareAction(declaration, player_position) ==
    IF ~(declarations = <<>>
            \/ declarations[Len(declarations)].level < declaration.level)
    THEN Raise    \* assert: the new declaration must have a higher level
    ELSE IF ~(get_count(hands[player_position], declaration.suit, dominant_rank) >= 1)
    THEN Raise    \* assert: "Invalid declaration"
    ELSE
        /\ IF dealer_position = None \/ is_initial_game
           THEN dealer_position' = player_position /\ kitty_owner' = player_position
           ELSE UNCHANGED <<dealer_position, kitty_owner>>
        /\ declarations' = Append(declarations, declaration)
        /\ public_cards' = [public_cards EXCEPT ![player_position] =
              add_card(@, get_card_token(declaration, dominant_rank),
                       get_card_count(declaration))]
        /\ UNCHANGED <<unplayed_cards, kitty, chaodiVars, playVars, scoreVars,
                       configVars, stage, random_calls>>
        /\ IF HandsTotal < DealTotal
           THEN IF deck_pos >= DeckSize
                THEN \* StopIteration, after the declaration was recorded
                     /\ status' = "error"
                     /\ UNCHANGED <<hands, draw_order, deck_pos, returnVars,
                                    current_declaration_turn,
                                    initial_declaration_position>>
                ELSE /\ DrawCardTo(next_position(player_position))
                     /\ Return(next_position(player_position), 0)
                     /\ UNCHANGED <<current_declaration_turn,
                                    initial_declaration_position>>
           ELSE /\ initial_declaration_position' = player_position
                /\ current_declaration_turn' = next_position(player_position)
                /\ Return(next_position(player_position), 0)
                /\ UNCHANGED <<hands, draw_order, deck_pos>>

\* The four natural suits the hand still holds a (non-trump) card of.
suit_count(hand) ==
    Cardinality({x \in NaturalSuits : count_suit(hand, x, dominant_suit, dominant_rank) > 0})

\* run_action, PlaceKittyAction: the shaped reward of a discard, in tenths.
KittyReward(hand_before, hand_after, card) ==
    2 * (suit_count(hand_before) - suit_count(hand_after))
    - (IF count_suit(hand_after, TRUMP, dominant_suit, dominant_rank)
            < count_suit(hand_before, TRUMP, dominant_suit, dominant_rank)
       THEN 5 ELSE 0)
    - (IF get_rank(card, dominant_suit, dominant_rank) >= 15 THEN 10 ELSE 0)

\* `if not self.round_history: self.round_history.append((player_position, []))`.
OpenFirstRound(player_position) ==
    IF round_history = <<>>
    THEN <<[leader |-> player_position, moves |-> <<>>]>>
    ELSE round_history

\* run_action, PlaceKittyAction.
PlaceKittyAction(card, player_position) ==
    IF ~(size(kitty) < KittySize)
    THEN Raise    \* assert: "Kitty already has 8 cards"
    ELSE IF ~has_cards(hands[player_position], card, 1)
    THEN \* remove_card raises after the card was added to the kitty
         /\ kitty' = add_card(kitty, card, 1)
         /\ status' = "error"
         /\ UNCHANGED <<hands, public_cards, unplayed_cards, deck_pos, draw_order,
                        declVars, chaodiVars, playVars, scoreVars, configVars, stage,
                        returnVars, random_calls>>
    ELSE
        /\ kitty' = add_card(kitty, card, 1)
        /\ hands' = [hands EXCEPT ![player_position] = remove_card(@, card, 1)]
        /\ UNCHANGED <<public_cards, unplayed_cards, deck_pos, draw_order, declVars,
                       chaodi_times, consecutive_moves, scoreVars, configVars,
                       random_calls>>
        /\ IF size(kitty) + 1 = KittySize
           THEN /\ round_history' = OpenFirstRound(player_position)
                /\ IF ~enable_chaodi
                   THEN /\ stage' = "PLAY"
                        /\ Return(dealer_position,
                                  KittyReward(hands[player_position],
                                              remove_card(hands[player_position], card, 1),
                                              card))
                        /\ UNCHANGED <<current_chaodi_turn, initial_chaodi_position>>
                   ELSE /\ stage' = "CHAODI"
                        /\ initial_chaodi_position' = player_position
                        /\ current_chaodi_turn' = next_position(player_position)
                        /\ Return(next_position(player_position),
                                  KittyReward(hands[player_position],
                                              remove_card(hands[player_position], card, 1),
                                              card))
           ELSE /\ Return(player_position, 0)
                /\ UNCHANGED <<round_history, stage, current_chaodi_turn,
                               initial_chaodi_position>>

\* run_action, PlaceAllKittyAction.
PlaceAllKittyAction(cards, player_position) ==
    IF ~has_cardset(hands[player_position], cards)
    THEN \* remove_cardset raises after the cards were added to the kitty
         /\ kitty' = add_cardset(kitty, cards)
         /\ status' = "error"
         /\ UNCHANGED <<hands, public_cards, unplayed_cards, deck_pos, draw_order,
                        declVars, chaodiVars, playVars, scoreVars, configVars, stage,
                        returnVars, random_calls>>
    ELSE
        /\ kitty' = add_cardset(kitty, cards)
        /\ hands' = [hands EXCEPT ![player_position] = remove_cardset(@, cards)]
        /\ round_history' = OpenFirstRound(player_position)
        /\ UNCHANGED <<public_cards, unplayed_cards, deck_pos, draw_order, declVars,
                       chaodi_times, consecutive_moves, scoreVars, configVars,
                       random_calls>>
        /\ IF ~enable_chaodi \/ declarations = <<>>
           THEN /\ stage' = "PLAY"
                /\ Return(dealer_position, 0)
                /\ UNCHANGED <<current_chaodi_turn, initial_chaodi_position>>
           ELSE /\ stage' = "CHAODI"
                /\ initial_chaodi_position' = player_position
                /\ current_chaodi_turn' = next_position(player_position)
                /\ Return(next_position(player_position), 0)

\* A faulty variant: the lap closes only after the kitty holder passed too.
DontChaodiAction_full_lap(player_position) ==
    IF current_chaodi_turn = None
    THEN Raise
    ELSE IF current_chaodi_turn = initial_chaodi_position
    THEN /\ current_chaodi_turn' = None
         /\ stage' = "PLAY"
         /\ Return(dealer_position, 0)
         /\ UNCHANGED <<cardVars, declVars, initial_chaodi_position, chaodi_times,
                        playVars, scoreVars, configVars, random_calls>>
    ELSE /\ current_chaodi_turn' = next_position(current_chaodi_turn)
         /\ Return(next_position(current_chaodi_turn), 0)
         /\ UNCHANGED <<cardVars, declVars, initial_chaodi_position, chaodi_times,
                        playVars, scoreVars, configVars, stage, random_calls>>

\* run_action, DontChaodiAction.
DontChaodiAction(player_position) ==
    IF current_chaodi_turn = None
    THEN Raise    \* None has no next_position: AttributeError
    ELSE IF next_position(current_chaodi_turn) = initial_chaodi_position
    THEN /\ current_chaodi_turn' = None
         /\ stage' = "PLAY"
         /\ Return(dealer_position, 0)
         /\ UNCHANGED <<cardVars, declVars, initial_chaodi_position, chaodi_times,
                        playVars, scoreVars, configVars, random_calls>>
    ELSE /\ current_chaodi_turn' = next_position(current_chaodi_turn)
         /\ Return(next_position(current_chaodi_turn), 0)
         /\ UNCHANGED <<cardVars, declVars, initial_chaodi_position, chaodi_times,
                        playVars, scoreVars, configVars, stage, random_calls>>

\* A faulty variant: an accepted counter-bid reopens the bidding.
ChaodiAction_reopens_bidding(declaration, player_position) ==
    /\ declarations' = Append(declarations, declaration)
    /\ hands' = [hands EXCEPT ![player_position] = add_cardset(@, kitty)]
    /\ kitty' = remove_cardset(kitty, kitty)
    /\ public_cards' = [public_cards EXCEPT ![player_position] =
          add_card(@, get_card_token(declaration, dominant_rank),
                   get_card_count(declaration))]
    /\ kitty_owner' = player_position
    /\ stage' = "DECLARE"
    /\ chaodi_times' = [chaodi_times EXCEPT ![player_position] = @ + 1]
    /\ current_chaodi_turn' =
          IF declaration.level = 3 THEN None ELSE current_chaodi_turn
    /\ Return(player_position, 0)
    /\ UNCHANGED <<unplayed_cards, deck_pos, draw_order, current_declaration_turn,
                   initial_declaration_position, dealer_position,
                   initial_chaodi_position, playVars, scoreVars, configVars,
                   random_calls>>

\* run_action, ChaodiAction.
ChaodiAction(declaration, player_position) ==
    /\ declarations' = Append(declarations, declaration)
    /\ hands' = [hands EXCEPT ![player_position] = add_cardset(@, kitty)]
    /\ kitty' = remove_cardset(kitty, kitty)
    /\ public_cards' = [public_cards EXCEPT ![player_position] =
          add_card(@, get_card_token(declaration, dominant_rank),
                   get_card_count(declaration))]
    /\ kitty_owner' = player_position
    /\ stage' = "KITTY"
    /\ chaodi_times' = [chaodi_times EXCEPT ![player_position] = @ + 1]
    /\ current_chaodi_turn' =
          IF declaration.level = 3 THEN None ELSE current_chaodi_turn
    /\ Return(player_position, 0)
    /\ UNCHANGED <<unplayed_cards, deck_pos, draw_order, current_declaration_turn,
                   initial_declaration_position, dealer_position,
                   initial_chaodi_position, playVars, scoreVars, configVars,
                   random_calls>>

LastRound == round_history[Len(round_history)]
SetMoves(ms) == [round_history EXCEPT ![Len(round_history)].moves = ms]

\* A faulty variant: the start action takes its cards out of the hand.
LeadAction_plays_at_once(move, player_position) ==
    IF round_history = <<>>
    THEN Raise
    ELSE /\ round_history' = SetMoves(Append(LastRound.moves, move))
         /\ consecutive_moves' = 1
         /\ hands' = [hands EXCEPT ![player_position] = remove_cardset(@, move)]
         /\ Return(player_position, 0)
         /\ UNCHANGED <<public_cards, unplayed_cards, deck_pos, kitty, draw_order,
                        declVars, chaodiVars, scoreVars, configVars, stage,
                        random_calls>>

\* run_action, LeadAction.
LeadAction(move, player_position) ==
    IF round_history = <<>>
    THEN Raise    \* round_history[-1]: IndexError
    ELSE /\ round_history' = SetMoves(Append(LastRound.moves, move))
         /\ consecutive_moves' = 1
         /\ Return(player_position, 0)
         /\ UNCHANGED <<cardVars, declVars, chaodiVars, scoreVars, configVars, stage,
                        random_calls>>

\* run_action, AppendLeadAction: the open lead becomes the extended group.
AppendLeadAction(move, player_position) ==
    IF round_history = <<>> \/ LastRound.moves = <<>>
    THEN Raise    \* round_history[-1][1][0]: IndexError
    ELSE /\ round_history' = SetMoves([LastRound.moves EXCEPT ![1] = move])
         /\ consecutive_moves' = consecutive_moves + 1
         /\ Return(player_position, 0)
         /\ UNCHANGED <<cardVars, declVars, chaodiVars, scoreVars, configVars, stage,
                        random_calls>>

\* `for card in cardset.card_list(): if public.has_card(card): public.remove_card(card)`.
PublicAfterPlay(public, cardset) ==
    [c \in Cards |-> public[c] - Min(public[c], cardset[c])]

\* A faulty variant: a failed combo reveals nothing.
PublicAfterPenalty_hidden(public, failed_cards) == public

\* The cards a failed combo over-claimed become public.
PublicAfterPenalty(public, failed_cards) ==
    [c \in Cards |-> IF failed_cards[c] > 0 /\ public[c] < failed_cards[c]
                     THEN failed_cards[c] ELSE public[c]]

OtherHands(player_position) ==
    {hands[q] : q \in Seats \ {player_position}}

\* run_action, EndLeadAction.
EndLeadAction(move, player_position) ==
    IF is_legal_combo(move, OtherHands(player_position), dominant_suit, dominant_rank)
    THEN IF round_history = <<>>
         THEN Raise    \* round_history[-1]: IndexError
         ELSE LET moves == IF LastRound.moves = <<>> THEN <<move>> ELSE LastRound.moves
              IN /\ round_history' = SetMoves(moves)
                 /\ UNCHANGED <<deck_pos, kitty, draw_order, declVars, chaodiVars,
                                consecutive_moves, scoreVars, configVars, stage,
                                random_calls>>
                 /\ IF ~has_cardset(hands[player_position], move)
                       \/ ~has_cardset(unplayed_cards, move)
                    THEN \* remove_cardset raises after the round was written
                         /\ status' = "error"
                         /\ UNCHANGED <<hands, unplayed_cards, public_cards, returnVars>>
                    ELSE /\ hands' = [hands EXCEPT ![player_position] =
                                         remove_cardset(@, move)]
                         /\ unplayed_cards' = remove_cardset(unplayed_cards, move)
                         /\ public_cards' = [public_cards EXCEPT ![player_position] =
                                                PublicAfterPlay(@, move)]
                         /\ Return(next_position(player_position), 0)
    ELSE IF round_history = <<>> \/ LastRound.moves = <<>>
         THEN Raise    \* pop from an empty list: IndexError
         ELSE LET penalty == penalty_move(move, OtherHands(player_position),
                                          dominant_suit, dominant_rank)
                  moves == Append(SubSeq(LastRound.moves, 1, Len(LastRound.moves) - 1),
                                  penalty)
              IN /\ round_history' = SetMoves(moves)
                 /\ UNCHANGED <<deck_pos, kitty, draw_order, declVars, chaodiVars,
                                consecutive_moves, scoreVars, configVars, stage,
                                random_calls>>
                 /\ IF ~has_cardset(hands[player_position], penalty)
                       \/ ~has_cardset(unplayed_cards, penalty)
                    THEN /\ status' = "error"
                         /\ UNCHANGED <<hands, unplayed_cards, public_cards, returnVars>>
                    ELSE /\ hands' = [hands EXCEPT ![player_position] =
                                         remove_cardset(@, penalty)]
                         /\ unplayed_cards' = remove_cardset(unplayed_cards, penalty)
                         /\ public_cards' = [public_cards EXCEPT ![player_position] =
                               PublicAfterPenalty(@, remove_cardset(move, penalty))]
                         /\ Return(next_position(player_position), -combo_penalty)

position_array(lead_position) ==
    <<lead_position, next_position(lead_position),
      next_position(next_position(lead_position)), last_position(lead_position)>>

\* list.index, from 0.
IndexOf(seq, x) == (CHOOSE i \in 1..Len(seq) : seq[i] = x) - 1

\* A faulty variant: the dealer's partner does not count as the dealer's side.
declarer_wins_round_dealer_only(winner_index, dealer_index) ==
    winner_index = dealer_index

declarer_wins_round(winner_index, dealer_index) ==
    winner_index = dealer_index \/ (winner_index + 2) % 4 = dealer_index

\* A faulty variant: the boundary at 80 points is exclusive.
opponent_reward_exclusive(points) ==
    IF points > 80 THEN 1 + ((points - 80) \div 40)
    ELSE IF points >= 40 THEN -1
    ELSE IF points > 0 THEN -2
    ELSE -3

\* The final reward of the challengers, from their points.
opponent_reward(points) ==
    IF points >= 80 THEN 1 + ((points - 80) \div 40)
    ELSE IF points >= 40 THEN -1
    ELSE IF points > 0 THEN -2
    ELSE -3

SumPoints(moves) ==
    total_points(moves[1]) + total_points(moves[2])
    + total_points(moves[3]) + total_points(moves[4])

\* A faulty variant: the round closes one group late.
RoundFinished_late(moves) == Len(moves) = 5

\* `if len(moves) == 4`.
RoundFinished(moves) == Len(moves) = 4

\* run_action, FollowAction: the bookkeeping of a closed round.
FinishRound(moves, ended, new_leader, wins, points, final_points, round_points) ==
    /\ defender_points' = defender_points + (IF wins THEN points ELSE 0)
    /\ opponent_points' = final_points
    /\ points_per_round' = Append(points_per_round, round_points)
    /\ game_ended' = ended
    /\ IF ended
       THEN /\ final_opponent_reward' = <<opponent_reward(final_points)>>
            /\ final_defender_reward' = <<-opponent_reward(final_points)>>
            /\ round_history' = SetMoves(moves)
            /\ Return(None, 0)
       ELSE /\ round_history' =
                  Append(SetMoves(moves),
                         [leader |-> new_leader, moves |-> <<>>])
            /\ Return(new_leader, 0)
            /\ UNCHANGED <<final_opponent_reward, final_defender_reward>>

\* A faulty variant: the kitty goes to the challengers whoever wins the last round.
ScoreRound_kitty_always(moves, ended, new_leading_position, wins, points, kitty_points) ==
    FinishRound(moves, ended, new_leading_position, wins, points,
                opponent_points + (IF wins THEN 0 ELSE points)
                    + (IF ended THEN kitty_points ELSE 0),
                IF wins
                THEN points + (IF ended THEN total_points(kitty) * 2 ELSE 0)
                ELSE -points - (IF ended THEN kitty_points ELSE 0))

\* run_action, FollowAction: the points of a closed round; the kitty counts
\* when the round was the last.
ScoreRound(moves, ended, new_leading_position, wins, points, kitty_points) ==
    FinishRound(moves, ended, new_leading_position, wins, points,
                opponent_points + (IF wins THEN 0 ELSE points)
                    + (IF ended /\ ~wins THEN kitty_points ELSE 0),
                IF wins
                THEN points + (IF ended THEN total_points(kitty) * 2 ELSE 0)
                ELSE -points - (IF ended THEN kitty_points ELSE 0))

\* run_action, FollowAction: the fourth group closes the round.
CloseRound(moves, ended, lead_position, winner_index, dealer_index) ==
    ScoreRound(moves, ended, position_array(lead_position)[winner_index + 1],
               declarer_wins_round(winner_index, dealer_index),
               SumPoints(moves),
               total_points(kitty)
                 * get_multiplier(moves[winner_index + 1], dominant_suit, dominant_rank))

\* run_action, FollowAction.
FollowAction(cardset, player_position) ==
    IF round_history = <<>>
    THEN Raise    \* round_history[-1]: IndexError
    ELSE IF ~has_cardset(hands[player_position], cardset)
    THEN Raise    \* remove_cardset raises
    ELSE
         /\ hands' = [hands EXCEPT ![player_position] = remove_cardset(@, cardset)]
         /\ UNCHANGED <<deck_pos, kitty, draw_order, declVars, chaodiVars,
                        consecutive_moves, configVars, stage, random_calls>>
         /\ IF ~has_cardset(unplayed_cards, cardset)
            THEN \* unplayed_cards.remove_cardset raises
                 /\ round_history' = SetMoves(Append(LastRound.moves, cardset))
                 /\ status' = "error"
                 /\ UNCHANGED <<unplayed_cards, public_cards, scoreVars, returnVars>>
            ELSE
            /\ unplayed_cards' = remove_cardset(unplayed_cards, cardset)
            /\ public_cards' = [public_cards EXCEPT ![player_position] =
                                   PublicAfterPlay(@, cardset)]
            /\ IF ~RoundFinished(Append(LastRound.moves, cardset))
               THEN /\ round_history' = SetMoves(Append(LastRound.moves, cardset))
                    /\ Return(next_position(player_position), 0)
                    /\ UNCHANGED scoreVars
               ELSE IF dealer_position = None
               THEN \* position_array.index(None): ValueError
                    /\ round_history' = SetMoves(Append(LastRound.moves, cardset))
                    /\ status' = "error"
                    /\ UNCHANGED <<scoreVars, returnVars>>
               ELSE CloseRound(Append(LastRound.moves, cardset),
                               size(hands[player_position]) = size(cardset),
                               LastRound.leader,
                               round_winner(Append(LastRound.moves, cardset),
                                            dominant_suit, dominant_rank),
                               IndexOf(position_array(LastRound.leader),
                                       dealer_position))

(***************************************************************************)
(* Game.get_observation: the legal action list of a seat.                  *)
(***************************************************************************)
is_warmup_game == FALSE

\* The branch of get_observation's if-chain that computes the actions.
ObsBranch(position) ==
    IF stage = "DECLARE" THEN "declare"
    ELSE IF size(hands[position]) > full_hand THEN "kitty"
    ELSE IF current_chaodi_turn = position THEN "chaodi"
    ELSE IF round_history = <<>> THEN "IndexError"
    ELSE IF round_history[Len(round_history)].leader = position THEN "lead"
    ELSE IF round_history[Len(round_history)].moves = <<>> THEN "IndexError"
    ELSE "follow"

\* A faulty variant: a higher level is all a new declaration needs.
ObsDeclareOk_level_only(suit, level, position) ==
    \/ declarations = <<>>
    \/ declarations[Len(declarations)].level < level

ObsDeclareOk(suit, level, position) ==
    \/ declarations = <<>>
    \/ /\ declarations[Len(declarations)].level < level
       /\ \/ declarations[Len(declarations)].suit = suit
          \/ declarations[Len(declarations)].absolute_position # position

ObsDeclareActions(position) ==
    IF ObsBranch(position) = "declare" /\ ~is_warmup_game
    THEN {Declaration(o[1], o[2], position) :
            o \in {x \in trump_declaration_options(hands[position], dominant_rank) :
                      ObsDeclareOk(x[1], x[2], position)}}
    ELSE {}

ObsDontDeclare(position) == ObsBranch(position) = "declare"

ObsKittyActions(position) ==
    IF ObsBranch(position) = "kitty" THEN Support(hands[position]) ELSE {}

\* A faulty variant: any declaration may counter-bid.
ObsChaodiOk_any(suit, level) == declarations # <<>>

ObsChaodiOk(suit, level) ==
    /\ declarations # <<>>
    /\ chaodi_level(suit, level)
         > chaodi_level(declarations[Len(declarations)].suit,
                        declarations[Len(declarations)].level)

ObsChaodiActions(position) ==
    IF ObsBranch(position) = "chaodi" /\ enable_chaodi /\ declarations # <<>>
    THEN {Declaration(o[1], o[2], position) :
            o \in {x \in trump_declaration_options(hands[position], dominant_rank) :
                      ObsChaodiOk(x[1], x[2])}}
    ELSE {}

\* A faulty variant: declining to counter-bid is never listed.
ObsDontChaodi_unlisted(position) == FALSE

ObsDontChaodi(position) == ObsBranch(position) = "chaodi"

\* The leader is asked for a fresh lead, or to extend or close the open one.
LeadFresh(position) ==
    /\ ObsBranch(position) = "lead"
    /\ ~enable_combos \/ LastRound.moves = <<>>

LeadOpen(position) ==
    /\ ObsBranch(position) = "lead"
    /\ enable_combos /\ LastRound.moves # <<>>

ban_combos(position) == combo_alternation /\ position \in {"E", "W"}

current_action == LastRound.moves[1]

SuitOfLead(position) ==
    filter_by_suit(hands[position], MoveSuit(current_action, dominant_suit, dominant_rank),
                   dominant_suit, dominant_rank)

\* remaining_cards.remove_cardset(current_action) raises when the open lead
\* is not in the hand.
RemainingRaises(position) == ~has_cardset(SuitOfLead(position), current_action)

remaining_cards(position) == remove_cardset(SuitOfLead(position), current_action)

ObsLeadActions(position) ==
    IF LeadFresh(position) /\ enable_combos /\ ~ban_combos(position)
    THEN get_leading_moves(hands[position], dominant_suit, dominant_rank)
    ELSE {}

\* A faulty variant: extensions are offered without a bound.
ObsAppendLeadActions_unbounded(position) ==
    IF LeadOpen(position) /\ ~RemainingRaises(position)
    THEN {add_cardset(current_action, m) :
            m \in get_leading_moves(remaining_cards(position), dominant_suit,
                                    dominant_rank)}
    ELSE {}

ObsAppendLeadActions(position) ==
    IF LeadOpen(position) /\ ~RemainingRaises(position) /\ consecutive_moves < 3
    THEN {add_cardset(current_action, m) :
            m \in get_leading_moves(remaining_cards(position), dominant_suit,
                                    dominant_rank)}
    ELSE {}

ObsEndLeadActions(position) ==
    IF LeadFresh(position)
    THEN IF enable_combos /\ ~ban_combos(position)
         THEN {}
         ELSE get_leading_moves(hands[position], dominant_suit, dominant_rank)
    ELSE IF LeadOpen(position) /\ ~RemainingRaises(position)
    THEN {current_action}
    ELSE {}

ObsFollowActions(position) ==
    IF ObsBranch(position) = "follow"
    THEN get_matching_moves(hands[position], current_action, dominant_suit,
                            dominant_rank)
    ELSE {}

\* The observation lists no action at all.
ObsEmpty(position) ==
    /\ ~ObsDontDeclare(position)
    /\ ObsDeclareActions(position) = {}
    /\ ObsKittyActions(position) = {}
    /\ ~ObsDontChaodi(position)
    /\ ObsChaodiActions(position) = {}
    /\ ObsLeadActions(position) = {}
    /\ ObsAppendLeadActions(position) = {}
    /\ ObsEndLeadActions(position) = {}
    /\ ObsFollowActions(position) = {}

\* get_observation raises: an index error of the if-chain, the failed
\* remove_cardset, or `assert actions`.
ObsRaises(position) ==
    \/ ObsBranch(position) = "IndexError"
    \/ LeadOpen(position) /\ RemainingRaises(position)
    \/ ObsEmpty(position)

(***************************************************************************)
(* The driver: it asks get_observation for the seat the last call returned *)
(* and applies one of the actions listed.  In the kitty stage it may       *)
(* instead place the whole kitty at once (PlaceAllKittyAction).            *)
(***************************************************************************)
Running == status = "ok" /\ ~misused /\ ~game_ended /\ game_started

Call(kind, player) ==
    /\ last_call' = [kind |-> kind, player |-> player]
    /\ UNCHANGED misused

PassDeclare ==
    /\ Running
    /\ ObsDontDeclare(next_player)
    /\ DontDeclareAction(next_player)
    /\ Call("DontDeclare", next_player)

Declare ==
    /\ Running
    /\ \E d \in ObsDeclareActions(next_player) : DeclareAction(d, next_player)
    /\ Call("Declare", next_player)

PlaceKitty ==
    /\ Running
    /\ \E card \in ObsKittyActions(next_player) : PlaceKittyAction(card, next_player)
    /\ Call("PlaceKitty", next_player)

PlaceAllKitty ==
    /\ Running
    /\ ObsBranch(next_player) = "kitty"
    /\ size(kitty) = 0
    /\ \E cards \in SubCardSets(hands[next_player], Support(hands[next_player]),
                                KittySize) :
          PlaceAllKittyAction(cards, next_player)
    /\ Call("PlaceAllKitty", next_player)

PassChaodi ==
    /\ Running
    /\ ObsDontChaodi(next_player)
    /\ DontChaodiAction(next_player)
    /\ Call("DontChaodi", next_player)

Chaodi ==
    /\ Running
    /\ \E d \in ObsChaodiActions(next_player) : ChaodiAction(d, next_player)
    /\ Call("Chaodi", next_player)

Lead ==
    /\ Running
    /\ \E move \in ObsLeadActions(next_player) : LeadAction(move, next_player)
    /\ Call("Lead", next_player)

AppendLead ==
    /\ Running
    /\ \E move \in ObsAppendLeadActions(next_player) :
          AppendLeadAction(move, next_player)
    /\ Call("AppendLead", next_player)

EndLead ==
    /\ Running
    /\ \E move \in ObsEndLeadActions(next_player) : EndLeadAction(move, next_player)
    /\ Call("EndLead", next_player)

Follow ==
    /\ Running
    /\ \E cardset \in ObsFollowActions(next_player) : FollowAction(cardset, next_player)
    /\ Call("Follow", next_player)

Next ==
    \/ start_game
    \/ PassDeclare
    \/ Declare
    \/ PlaceKitty
    \/ PlaceAllKitty
    \/ PassChaodi
    \/ Chaodi
    \/ Lead
    \/ AppendLead
    \/ EndLead
    \/ Follow

Spec == Init /\ [][Next]_vars

(***************************************************************************)
(* A caller that breaks the contract.  run_action dispatches on the type   *)
(* of the action alone; the caller drives the game as above and, once, may *)
(* call run_action for any seat with any action.  The game is then left    *)
(* as that call left it.                                                   *)
(***************************************************************************)
ActionKinds ==
    {"DontDeclare", "Declare", "PlaceKitty", "PlaceAllKitty", "DontChaodi",
     "Chaodi", "Lead", "AppendLead", "EndLead", "Follow"}

\* Game.run_action: the isinstance chain.
run_action(kind, arg, player_position) ==
    CASE kind = "DontDeclare" -> DontDeclareAction(player_position)
      [] kind = "Declare" -> DeclareAction(arg, player_position)
      [] kind = "PlaceKitty" -> PlaceKittyAction(arg, player_position)
      [] kind = "PlaceAllKitty" -> PlaceAllKittyAction(arg, player_position)
      [] kind = "DontChaodi" -> DontChaodiAction(player_position)
      [] kind = "Chaodi" -> ChaodiAction(arg, player_position)
      [] kind = "Lead" -> LeadAction(arg, player_position)
      [] kind = "AppendLead" -> AppendLeadAction(arg, player_position)
      [] kind = "EndLead" -> EndLeadAction(arg, player_position)
      [] kind = "Follow" -> FollowAction(arg, player_position)

NoArg(listed) == IF listed THEN {None} ELSE {}

\* The arguments with which the contract allows a seat to call an action.
LegalArgs(kind, position) ==
    CASE kind = "DontDeclare" -> NoArg(ObsDontDeclare(position))
      [] kind = "Declare" -> ObsDeclareActions(position)
      [] kind = "PlaceKitty" -> ObsKittyActions(position)
      [] kind = "PlaceAllKitty" ->
           IF ObsBranch(position) = "kitty" /\ size(kitty) = 0
           THEN SubCardSets(hands[position], Support(hands[position]), KittySize)
           ELSE {}
      [] kind = "DontChaodi" -> NoArg(ObsDontChaodi(position))
      [] kind = "Chaodi" -> ObsChaodiActions(position)
      [] kind = "Lead" -> ObsLeadActions(position)
      [] kind = "AppendLead" -> ObsAppendLeadActions(position)
      [] kind = "EndLead" -> ObsEndLeadActions(position)
      [] kind = "Follow" -> ObsFollowActions(position)

\* The arguments of the call that breaks the contract.
AnyCards == {CardOf(2, "D"), CardOf(10, "H")}

AnyArgs(kind, position) ==
    CASE kind \in {"DontDeclare", "DontChaodi"} -> {None}
      [] kind \in {"Declare", "Chaodi"} ->
           {Declaration("D", 1, position), Declaration("C", 0, position)}
      [] kind = "PlaceKitty" -> AnyCards
      [] kind = "PlaceAllKitty" -> {PairsOf({c}) : c \in AnyCards}
      [] OTHER -> {Single(c) : c \in AnyCards}

LegalCall ==
    /\ Running
    /\ \E kind \in ActionKinds :
          \E arg \in LegalArgs(kind, next_player) :
             /\ run_action(kind, arg, next_player)
             /\ Call(kind, next_player)

AnyCall ==
    /\ Running
    /\ \E position \in Seats, kind \in ActionKinds :
          \E arg \in AnyArgs(kind, position) :
             /\ run_action(kind, arg, position)
             /\ last_call' = [kind |-> kind, player |-> position]
             /\ misused' = TRUE

InitMisuse == InitConfig(MisuseConfigs)

NextMisuse ==
    \/ start_game
    \/ LegalCall
    \/ AnyCall

SpecMisuse == InitMisuse /\ [][NextMisuse]_vars

(***************************************************************************)
(* env/utils.py: get_suit and get_rank called on their own, on any card of *)
(* ORDERING, any trump suit and any dominant rank.                         *)
(***************************************************************************)
RankCard ==
    /\ ~game_started
    /\ pure_call = <<>>
    /\ \E card \in 0..53, suit \in {"D", "C", "H", "S", "XJ", "DJ"}, rank \in 2..14 :
          pure_call' = <<[card |-> card, dominant_suit |-> suit, dominant_rank |-> rank,
                          get_suit |-> get_suit(card, suit, rank),
                          get_rank |-> get_rank(card, suit, rank)]>>
    /\ UNCHANGED <<cardVars, declVars, chaodiVars, playVars, scoreVars,
                   is_initial_game, enable_chaodi, enable_combos, combo_alternation, full_hand,
                   stage, returnVars, status, last_call, random_calls, misused>>

SpecRanking == InitMisuse /\ [][RankCard]_vars

(***************************************************************************)
(* get_observation: the Observation record (its action list is above).     *)
(***************************************************************************)
\* AbsolutePosition.relative_to: how `position` sees the seat `self`.
relative_to(self, position) ==
    LET index == [p \in Seats |->
                    CASE p = "N" -> 0 [] p = "W" -> 1 [] p = "S" -> 2 [] p = "E" -> 3]
    IN <<"S", "L", "O", "R">>[((index[position] - index[self]) % 4) + 1]

\* The Observation get_observation builds for a seat, field by field; an
\* optional field is <<>> for None.
Observation(position) ==
    [hand |-> hands[position],
     position |-> position,
     stage |-> stage,
     dominant_rank |-> dominant_rank,
     declaration |->
        IF declarations # <<>>
        THEN <<[suit |-> declarations[Len(declarations)].suit,
                level |-> declarations[Len(declarations)].level,
                absolute_position |-> declarations[Len(declarations)].absolute_position,
                relative_position |->
                   relative_to(declarations[Len(declarations)].absolute_position,
                               position)]>>
        ELSE <<>>,
     next_declaration_turn |->
        IF current_declaration_turn # None
        THEN <<relative_to(current_declaration_turn, position)>> ELSE <<>>,
     dealer_position |->
        IF dealer_position # None
        THEN <<relative_to(dealer_position, position)>> ELSE <<>>,
     defender_points |-> opponent_points,
     opponent_points |-> opponent_points,
     round_history |->
        [i \in 1..Len(round_history) |->
            [leader |-> relative_to(round_history[i].leader, position),
             moves |-> round_history[i].moves]],
     unplayed_cards |-> unplayed_cards,
     leads_current_trick |->
        IF round_history # <<>> THEN LastRound.leader = position
        ELSE position = dealer_position,
     chaodi_times |-> chaodi_times,
     kitty |-> IF position = kitty_owner THEN <<kitty>> ELSE <<>>,
     is_chaodi_turn |-> (current_chaodi_turn = position),
     perceived_left |-> public_cards[last_position(position)],
     perceived_right |-> public_cards[next_position(position)],
     perceived_opposite |-> public_cards[next_position(next_position(position))],
     actual_left |-> hands[last_position(position)],
     actual_right |-> hands[next_position(position)],
     actual_opposite |-> hands[next_position(next_position(position))]]

(***************************************************************************)
(* A decision-maker that writes into the Observation it was handed.  The   *)
(* hand, the kitty, unplayed_cards and the perceived and actual card sets  *)
(* are `.copy()`s, so writing to them leaves the Game alone.  chaodi_times *)
(* is the Game's own list, and `cards[:]` copies the list of a round's     *)
(* groups but not the CardSet objects in it: writing to those writes to    *)
(* the Game.  The driver stops after such a write.                         *)
(***************************************************************************)
MutateObservation ==
    /\ Running
    /\ \E part \in {"hand", "kitty", "perceived", "chaodi_times", "round_history"} :
          /\ chaodi_times' =
                IF part = "chaodi_times"
                THEN [chaodi_times EXCEPT ![next_player] = @ + 1]
                ELSE chaodi_times
          /\ round_history' =
                IF part = "round_history" /\ round_history # <<>>
                      /\ LastRound.moves # <<>>
                THEN SetMoves([LastRound.moves EXCEPT ![Len(LastRound.moves)] =
                                  EmptyCardSet])
                ELSE round_history
    /\ misused' = TRUE
    /\ last_call' = [kind |-> "MutateObservation", player |-> next_player]
    /\ UNCHANGED <<cardVars, declVars, current_chaodi_turn, initial_chaodi_position,
                   consecutive_moves, scoreVars, configVars, stage, returnVars,
                   status, random_calls>>

SpecObserver == Init /\ [][Next \/ MutateObservation]_vars

(***************************************************************************)
(* The final reward as a function of the challengers' points.  The scaled  *)
(* pack holds too few points to reach every bucket, so the bucketing of    *)
(* the game-end branch of FollowAction is also run on every total up to    *)
(* MaxPoints: rounds credit points to the challengers, then the game ends. *)
(***************************************************************************)
\* `self.opponent_points += total_points`.  The engine's points are multiples
\* of 5; the step of 1 makes every integer total occur.
AddPoints ==
    /\ ~game_ended
    /\ \E total \in {1, 5} :
          /\ opponent_points + total <= MaxPoints
          /\ opponent_points' = opponent_points + total
    /\ last_call' = [kind |-> "Follow", player |-> None]
    /\ UNCHANGED <<cardVars, declVars, chaodiVars, playVars, defender_points,
                   points_per_round, game_ended, final_opponent_reward,
                   final_defender_reward, configVars, stage, returnVars, status,
                   random_calls, misused>>

\* The game-end branch of FollowAction: the reward buckets.
SettleReward ==
    /\ ~game_ended
    /\ game_ended' = TRUE
    /\ final_opponent_reward' = <<opponent_reward(opponent_points)>>
    /\ final_defender_reward' = <<-opponent_reward(opponent_points)>>
    /\ Return(None, 0)
    /\ last_call' = [kind |-> "Follow", player |-> None]
    /\ UNCHANGED <<cardVars, declVars, chaodiVars, playVars, opponent_points,
                   defender_points, points_per_round, configVars, stage,
                   random_calls, misused>>

SpecReward == Init /\ [][AddPoints \/ SettleReward]_vars

(***************************************************************************)
(* The opening of a round with free combos.  A hand of the scaled deal     *)
(* holds HandSize cards, too few for a lead that is started and extended   *)
(* twice with cards to spare; a hand of the full deal holds up to 25.  The *)
(* positions below are openings of a round as the full deal produces them: *)
(* the two-deck pack over the model's cards, LeadHandSize cards in every   *)
(* hand, the leader holding hearts only, and consecutive_moves as any      *)
(* earlier round may have left it.                                         *)
(***************************************************************************)
InitLead ==
    LET pack == [c \in Cards |-> 2]
        hearts == {c \in Cards : c < XJ /\ NaturalSuit(c) = "H"}
        before(cs, c) == SumTo(cs, Cards, IndexOf(CardSeq, c))
        lo(cs, c, from) == IF before(cs, c) > from THEN before(cs, c) ELSE from
        hi(cs, c, to) == Min(before(cs, c) + cs[c], to)
        slice(cs, from) ==
            [c \in Cards |-> IF hi(cs, c, from + LeadHandSize) > lo(cs, c, from)
                             THEN hi(cs, c, from + LeadHandSize) - lo(cs, c, from)
                             ELSE 0]
    IN  /\ \E leader \in Seats, hand \in SubCardSets(pack, hearts, LeadHandSize) :
              /\ hands = [p \in Seats |->
                    IF p = leader THEN hand
                    ELSE slice(remove_cardset(pack, hand),
                               LeadHandSize * (IndexOf(position_array(leader), p) - 1))]
              /\ round_history = <<[leader |-> leader, moves |-> <<>>]>>
              /\ next_player = leader
        /\ unplayed_cards = pack
        /\ public_cards = [p \in Seats |-> EmptyCardSet]
        /\ deck_pos = DeckSize /\ kitty = EmptyCardSet /\ draw_order = <<>>
        /\ stage = "PLAY"
        /\ dealer_position = "N" /\ kitty_owner = "N" /\ is_initial_game = FALSE
        /\ declarations = <<>>
        /\ current_declaration_turn = None /\ initial_declaration_position = None
        /\ enable_chaodi = FALSE /\ enable_combos = TRUE
        /\ combo_alternation \in BOOLEAN
        /\ current_chaodi_turn = None /\ initial_chaodi_position = None
        /\ chaodi_times = [p \in Seats |-> 0]
        /\ consecutive_moves \in 0..3
        /\ opponent_points = 0 /\ defender_points = 0 /\ game_ended = FALSE
        /\ points_per_round = <<>>
        /\ final_opponent_reward = <<>> /\ final_defender_reward = <<>>
        /\ reward = 0 /\ status = "ok"
        /\ last_call = [kind |-> "None", player |-> None]
        /\ random_calls = 0 /\ misused = FALSE /\ pure_call = <<>>
        /\ full_hand = LeadHandSize

SpecLead == InitLead /\ [][Lead \/ AppendLead \/ EndLead]_vars

(***************************************************************************)
(* The last lap of declarations.  A hand of the scaled deal is too small   *)
(* to hold a declared card of one suit and a pair of another.  The         *)
(* positions below are the DECLARE stage once every hand is full, with     *)
(* BidHandSize cards in a hand: the dominant-rank cards of the pack are    *)
(* held by any seats, the hands are filled up with the other cards of the  *)
(* pack (a second king and ace of hearts make the number), the kitty cards *)
(* are still in the deck, a declaration made during the draw may stand,    *)
(* and the lap has just been opened at any seat.                           *)
(***************************************************************************)
InitBid ==
    LET two(x) == CardOf(dominant_rank, x)
        filler == [c \in Cards |->
                     IF c \in {two("D"), two("C")} THEN 0
                     ELSE IF c \in {CardOf(13, "H"), CardOf(14, "H")} THEN 2
                     ELSE 1]
        before(c) == SumTo(filler, Cards, IndexOf(CardSeq, c))
        lo(c, from) == IF before(c) > from THEN before(c) ELSE from
        hi(c, to) == Min(before(c) + filler[c], to)
        slice(from, n) ==
            [c \in Cards |-> IF hi(c, from + n) > lo(c, from)
                             THEN hi(c, from + n) - lo(c, from) ELSE 0]
        order == position_array("N")
        twos(d, c, p) == d[p] + c[p]
        from(d, c, p) ==
            BidHandSize * IndexOf(order, p)
               - (IF IndexOf(order, p) >= 1 THEN twos(d, c, order[1]) ELSE 0)
               - (IF IndexOf(order, p) >= 2 THEN twos(d, c, order[2]) ELSE 0)
               - (IF IndexOf(order, p) >= 3 THEN twos(d, c, order[3]) ELSE 0)
        deal(d, c) ==
            [p \in Seats |->
                add_card(add_card(slice(from(d, c, p), BidHandSize - twos(d, c, p)),
                                  two("D"), d[p]), two("C"), c[p])]
        held == {f \in [Seats -> 0..2] : f["N"] + f["W"] + f["S"] + f["E"] = 2}
    IN  /\ \E d \in held, c \in held :
              /\ \A p \in Seats : twos(d, c, p) <= BidHandSize
              /\ hands = deal(d, c)
        /\ \/ declarations = <<>> /\ public_cards = [p \in Seats |-> EmptyCardSet]
           \/ \E q \in Seats, x \in {"D", "C"}, level \in 0..1 :
                 /\ hands[q][two(x)] >= level + 1
                 /\ declarations = <<Declaration(x, level, q)>>
                 /\ public_cards = [p \in Seats |->
                       IF p = q THEN add_card(EmptyCardSet, two(x), level + 1)
                       ELSE EmptyCardSet]
        /\ \E first \in Seats :
              /\ initial_declaration_position = first
              /\ current_declaration_turn = first
              /\ next_player = first
        /\ deck_pos = DeckSize - KittySize
        /\ unplayed_cards = add_cardset(RemainingCards,
              add_cardset(add_cardset(hands["N"], hands["W"]),
                          add_cardset(hands["S"], hands["E"])))
        /\ kitty = EmptyCardSet /\ draw_order = <<>> /\ round_history = <<>>
        /\ stage = "DECLARE"
        /\ dealer_position = "N" /\ kitty_owner = "N" /\ is_initial_game = FALSE
        /\ enable_chaodi = FALSE /\ enable_combos = FALSE /\ combo_alternation = FALSE
        /\ current_chaodi_turn = None /\ initial_chaodi_position = None
        /\ chaodi_times = [p \in Seats |-> 0]
        /\ consecutive_moves = 0
        /\ opponent_points = 0 /\ defender_points = 0 /\ game_ended = FALSE
        /\ points_per_round = <<>>
        /\ final_opponent_reward = <<>> /\ final_defender_reward = <<>>
        /\ reward = 0 /\ status = "ok"
        /\ last_call = [kind |-> "None", player |-> None]
        /\ random_calls = 0 /\ misused = FALSE /\ pure_call = <<>>
        /\ full_hand = BidHandSize

SpecBid == InitBid /\ [][PassDeclare \/ Declare]_vars

(***************************************************************************)
(* Properties.                                                             *)
(***************************************************************************)
RECURSIVE GroupCards(_, _)
GroupCards(moves, n) ==
    IF n = 0 THEN 0 ELSE size(moves[n]) + GroupCards(moves, n - 1)

RECURSIVE HistoryCards(_)
HistoryCards(n) ==
    IF n = 0 THEN 0
    ELSE GroupCards(round_history[n].moves, Len(round_history[n].moves))
         + HistoryCards(n - 1)

\* A lead that was started or extended but not yet closed is still in the
\* leader's hand.
OpenLeadCards ==
    IF last_call.kind \in {"Lead", "AppendLead"} THEN size(LastRound.moves[1]) ELSE 0

\* The cards of the groups already played: removed from a hand by a
\* close-lead or follow action.
PlayedCards == HistoryCards(Len(round_history)) - OpenLeadCards

\* C1: in every state reached by legal actions the four hands, the kitty,
\* the undealt rest of the deck and the groups already played hold the whole
\* pack between them, and no count is negative.
C1_CardConservation ==
    /\ HandsTotal + size(kitty) + (DeckSize - deck_pos) + PlayedCards = DeckSize
    /\ deck_pos <= DeckSize
    /\ \A c \in Cards : kitty[c] >= 0 /\ \A p \in Seats : hands[p][c] >= 0

\* C1: a game that ended after a counter-bid picked the kitty up.
C1_Witness == game_ended /\ \E p \in Seats : chaodi_times[p] > 0

\* C2: get_observation lists no action for a seat that is not the one
\* authorized to act.
C2_OnlyAuthorizedSeatActs ==
    Running => \A p \in Seats \ {next_player} : ObsRaises(p)

\* C3: a game constructed with a fixed dealer never consults the random
\* source, and its first player is the dealer.
C3_Determinism ==
    ~is_initial_game =>
        /\ random_calls = 0
        /\ draw_order # <<>> => draw_order[1][1] = dealer_position

\* C3: a game with a fixed dealer, played to its end.
C3_Witness == ~is_initial_game /\ game_ended

\* The stage an action belongs to.
StageOf(kind) ==
    CASE kind \in {"DontDeclare", "Declare"} -> "DECLARE"
      [] kind \in {"PlaceKitty", "PlaceAllKitty"} -> "KITTY"
      [] kind \in {"DontChaodi", "Chaodi"} -> "CHAODI"
      [] OTHER -> "PLAY"

\* C4: run_action called for a seat other than the one authorized to act
\* fails and changes nothing.
C4_OutOfTurnRejected ==
    [][(last_call'.kind \in ActionKinds /\ last_call'.player # next_player)
          => /\ status' = "error"
             /\ UNCHANGED <<hands, kitty, deck_pos, declarations, round_history,
                            stage, current_declaration_turn, current_chaodi_turn,
                            scoreVars>>]_vars

\* C5: an action that does not belong to the current stage fails and does
\* not change declarations, hands, kitty, stage or scores.
C5_WrongStageRejected ==
    [][(last_call'.kind \in ActionKinds /\ StageOf(last_call'.kind) # stage)
          => /\ status' = "error"
             /\ UNCHANGED <<declarations, hands, kitty, stage, scoreVars>>]_vars

\* C6: a declare action whose (suit, level) is not among the declaration
\* options of the seat's hand fails: no declaration is appended, dealer and
\* kitty owner stay, nothing becomes public and no card is dealt.
C6_DeclareNeedsQualifyingCards ==
    [][(/\ last_call'.kind = "Declare"
        /\ declarations' # declarations
        /\ <<declarations'[Len(declarations')].suit,
             declarations'[Len(declarations')].level>>
              \notin trump_declaration_options(hands[last_call'.player],
                                               dominant_rank))
          => FALSE]_vars

\* C7: the kitty never holds more than KittySize cards, and holds exactly
\* KittySize whenever the stage is CHAODI or PLAY.
C7_KittyCapacity ==
    /\ size(kitty) <= KittySize
    /\ stage \in {"CHAODI", "PLAY"} => size(kitty) = KittySize

\* C8 as stated: every recorded declaration has a strictly higher level than
\* the one before it.
C8_LevelsStrictlyIncrease ==
    \A i \in 2..Len(declarations) :
       declarations[i].level > declarations[i - 1].level

\* C8, amended: a declaration is only ever appended; one made in the draw
\* phase has a strictly higher level than the one before it, and a
\* counter-bid has a strictly higher chaodi rank than the one before it.
C8_DeclarationsOutrank ==
    [][declarations' # declarations =>
          /\ Len(declarations') = Len(declarations) + 1
          /\ SubSeq(declarations', 1, Len(declarations)) = declarations
          /\ last_call'.kind \in {"Declare", "Chaodi"}
          /\ last_call'.kind = "Declare" /\ declarations # <<>> =>
                declarations'[Len(declarations')].level
                    > declarations[Len(declarations)].level
          /\ last_call'.kind = "Chaodi" =>
                /\ declarations # <<>>
                /\ chaodi_level(declarations'[Len(declarations')].suit,
                                declarations'[Len(declarations')].level)
                     > chaodi_level(declarations[Len(declarations)].suit,
                                    declarations[Len(declarations)].level)]_vars

\* C8: a counter-bid was accepted whose level is not higher than that of the
\* declaration it replaced.
C8_Witness ==
    \E i \in 2..Len(declarations) :
       /\ declarations[i].level <= declarations[i - 1].level
       /\ chaodi_times[declarations[i].absolute_position] > 0

\* C9: points are credited, and a round's result recorded, only by the
\* follow action that plays the round's fourth group; every round but the
\* last holds four groups and the last at most four; the two totals never
\* both increase in one step.
C9_RoundClosure ==
    [][/\ \A i \in 1..Len(round_history') :
             /\ Len(round_history'[i].moves) <= 4
             /\ i < Len(round_history') => Len(round_history'[i].moves) = 4
       /\ <<opponent_points, defender_points, points_per_round>>'
              # <<opponent_points, defender_points, points_per_round>>
            => /\ last_call'.kind = "Follow"
               /\ Len(LastRound.moves) = 3
               /\ Len(round_history'[Len(round_history)].moves) = 4
       /\ (last_call'.kind = "Follow" /\ Len(LastRound.moves) = 3)
            => Len(points_per_round') = Len(points_per_round) + 1
       /\ ~(defender_points' > defender_points /\ opponent_points' > opponent_points)
      ]_vars

\* C9: a game that ended with points on both sides.
C9_Witness == game_ended /\ opponent_points > 0 /\ defender_points > 0

\* The seat n places after the leader in rotation.
SeatAfter(leader, n) ==
    IF n = 0 THEN leader
    ELSE IF n = 1 THEN next_position(leader)
    ELSE IF n = 2 THEN next_position(next_position(leader))
    ELSE next_position(next_position(next_position(leader)))

\* What C10 says of a round that `closed` closes, won by `winner`.
ClosureCredits(closed, winner, points) ==
    /\ IF winner \in {dealer_position, next_position(next_position(dealer_position))}
       THEN /\ defender_points' = defender_points + points
            /\ opponent_points' = opponent_points
       ELSE /\ defender_points' = defender_points
            /\ opponent_points' >= opponent_points + points
            /\ ~game_ended' => opponent_points' = opponent_points + points
    /\ ~game_ended' =>
          /\ next_player' = winner
          /\ Len(round_history') = Len(round_history) + 1
          /\ round_history'[Len(round_history')] = [leader |-> winner, moves |-> <<>>]

\* C10: when a round closes, the points of its four groups go to the
\* defenders if the winner is the dealer or the seat opposite, else to the
\* opponents; unless the game ends, the winner is next to act and leads the
\* newly opened, empty round.
C10_ClosureScoring ==
    [][Len(points_per_round') = Len(points_per_round) + 1 =>
          ClosureCredits(round_history'[Len(round_history)],
                         SeatAfter(LastRound.leader,
                                   round_winner(round_history'[Len(round_history)].moves,
                                                dominant_suit, dominant_rank)),
                         SumPoints(round_history'[Len(round_history)].moves))]_vars

\* C10: a first round with points in it was won by the seat opposite the
\* dealer, who leads the second.
C10_Witness ==
    /\ Len(round_history) >= 2
    /\ round_history[2].leader = next_position(next_position(dealer_position))
    /\ round_history[1].leader # round_history[2].leader
    /\ defender_points > 0

\* C11: before the game ends both final rewards are unset; at its end the
\* challengers' reward is the bucket of their final points p (p >= 80: the
\* r >= 1 with 80 + 40 (r - 1) <= p < 80 + 40 r, so 80 and 119 give 1 and
\* 120 gives 2; 40..79: -1; 1..39: -2; 0: -3) and the defenders' reward is
\* its negation.
C11_FinalRewardBucket ==
    /\ ~game_ended => final_opponent_reward = <<>> /\ final_defender_reward = <<>>
    /\ game_ended =>
          /\ Len(final_opponent_reward) = 1 /\ Len(final_defender_reward) = 1
          /\ final_defender_reward[1] = -final_opponent_reward[1]
          /\ opponent_points >= 80 =>
                /\ final_opponent_reward[1] >= 1
                /\ 80 + 40 * (final_opponent_reward[1] - 1) <= opponent_points
                /\ opponent_points < 80 + 40 * final_opponent_reward[1]
          /\ opponent_points \in {80, 119} => final_opponent_reward[1] = 1
          /\ opponent_points = 120 => final_opponent_reward[1] = 2
          /\ opponent_points \in 40..79 => final_opponent_reward[1] = -1
          /\ opponent_points \in 1..39 => final_opponent_reward[1] = -2
          /\ opponent_points = 0 => final_opponent_reward[1] = -3

\* C11: a game that ended with the challengers on exactly 80 points.
C11_Witness == game_ended /\ opponent_points = 80 /\ final_opponent_reward = <<1>>

\* What C12 says of the last round, won by `winner` with a group of the
\* given multiplier, when the round holds `points` and the kitty `kitty_points`.
KittySettled(winner, points, kitty_points, multiplier) ==
    IF winner \in {dealer_position, next_position(next_position(dealer_position))}
    THEN /\ opponent_points' = opponent_points
         /\ defender_points' = defender_points + points
         /\ points_per_round'[Len(points_per_round')] = points + 2 * kitty_points
    ELSE /\ opponent_points' = opponent_points + points + kitty_points * multiplier
         /\ defender_points' = defender_points
         /\ points_per_round'[Len(points_per_round')]
               = -points - kitty_points * multiplier
         /\ opponent_points' >= 80 => final_opponent_reward'[1] >= 1
         /\ opponent_points' \in 40..79 => final_opponent_reward'[1] = -1
         /\ opponent_points' \in 1..39 => final_opponent_reward'[1] = -2

\* C12: in the step that ends the game, if the dealer's side wins the last
\* round the last entry of points_per_round is the round's points plus twice
\* the kitty's points and neither total gains anything from the kitty; if the
\* challengers win it, opponent_points gains the round's points plus the
\* kitty's points times the winning group's multiplier, the last entry is
\* minus that sum, and the final reward is the bucket of the new total.
C12_KittySettlement ==
    [][(game_ended' /\ ~game_ended) =>
          KittySettled(SeatAfter(LastRound.leader,
                                 round_winner(round_history'[Len(round_history)].moves,
                                              dominant_suit, dominant_rank)),
                       SumPoints(round_history'[Len(round_history)].moves),
                       total_points(kitty),
                       get_multiplier(
                          round_history'[Len(round_history)].moves[
                             round_winner(round_history'[Len(round_history)].moves,
                                          dominant_suit, dominant_rank) + 1],
                          dominant_suit, dominant_rank))]_vars

\* C12: a game whose last round the dealer's side won over a kitty with points.
C12_Witness ==
    /\ game_ended
    /\ total_points(kitty) > 0
    /\ points_per_round[Len(points_per_round)] >= 2 * total_points(kitty)

\* C13 as the specification states it: a call returns no next seat exactly
\* when it ended the game; while the game is being played and has not ended
\* no seat's hand is empty; game_ended is set only in PLAY by the follow
\* that plays a round's fourth group.
C13_EndsWhenAHandEmpties ==
    [][/\ status' = "ok" => (next_player' = None <=> (game_ended' /\ ~game_ended))
       /\ (stage' = "PLAY" /\ ~game_ended' /\ status' = "ok")
             => \A p \in Seats : size(hands'[p]) > 0
       /\ game_ended' # game_ended
             => /\ stage = "PLAY" /\ game_ended'
                /\ last_call'.kind = "Follow" /\ Len(LastRound.moves) = 3
      ]_vars

\* C13: a call returns no next seat exactly when it ended the game; the game
\* ends at the closure of the round that empties the hands: a closure that
\* leaves a hand empty ends the game, no round is opened and no seat is asked
\* to lead while a hand is empty (inside the last round seats still follow
\* after the seats before them played their last cards); game_ended is set
\* only in PLAY by the follow that plays a round's fourth group.
C13_EndsAtLastClosure ==
    [][/\ status' = "ok" => (next_player' = None <=> (game_ended' /\ ~game_ended))
       /\ (Len(points_per_round') > Len(points_per_round)
             /\ \E p \in Seats : size(hands'[p]) = 0) => game_ended'
       /\ Len(round_history') > Len(round_history)
             => \A p \in Seats : size(hands'[p]) > 0
       /\ (stage' = "PLAY" /\ ~game_ended' /\ status' = "ok"
             /\ round_history'[Len(round_history')].moves = <<>>)
             => \A p \in Seats : size(hands'[p]) > 0
       /\ game_ended' # game_ended
             => /\ stage = "PLAY" /\ game_ended'
                /\ last_call'.kind = "Follow" /\ Len(LastRound.moves) = 3
      ]_vars

\* C13: in the last round a seat is asked to follow after the leader played
\* the last cards of its hand.
C13_Witness ==
    /\ stage = "PLAY" /\ ~game_ended /\ status = "ok"
    /\ Len(round_history) >= 2
    /\ Len(LastRound.moves) = 1
    /\ size(hands[LastRound.leader]) = 0
    /\ next_player = next_position(LastRound.leader)

\* C14: the step that completes the kitty (the last single discard or a
\* batch) moves the stage to CHAODI exactly when counter-bidding is enabled
\* and a declaration exists, else to PLAY; so with counter-bidding enabled
\* and no declaration the stage is never CHAODI.
C14_ChaodiNeedsDeclaration ==
    [][/\ (size(kitty) < KittySize /\ size(kitty') = KittySize /\ status' = "ok")
             => stage' = IF enable_chaodi /\ declarations # <<>>
                         THEN "CHAODI" ELSE "PLAY"
       /\ (stage' = "CHAODI" /\ enable_chaodi) => declarations' # <<>>
      ]_vars

\* C15: on every step that brings the stage to PLAY, the leader of the first
\* round and the seat returned as next to act are the kitty owner.
C15_KittyOwnerLeads ==
    [][(stage # "PLAY" /\ stage' = "PLAY" /\ status' = "ok")
          => /\ round_history' # <<>>
             /\ round_history'[1].leader = kitty_owner'
             /\ next_player' = kitty_owner'
      ]_vars

\* The trump suit after the first n declarations.
SuitAfter(n) == IF n = 0 THEN "XJ" ELSE declarations[n].suit

\* How many of the first n declarations changed the trump suit.
TrumpChanges(n) == Cardinality({i \in 1..n : SuitAfter(i) # SuitAfter(i - 1)})

\* The number of accepted counter-bids.
ChaodiCount ==
    chaodi_times["N"] + chaodi_times["W"] + chaodi_times["S"] + chaodi_times["E"]

\* C16 as the specification states it: the trump suit changes at most twice
\* in a game, at most once through the declarations of the draw phase and at
\* most once through counter-bids, and no step taken in PLAY changes it.
C16_AtMostTwoChanges ==
    [][/\ (TrumpChanges(Len(declarations)) <= 2)'
       /\ (TrumpChanges(Len(declarations) - ChaodiCount) <= 1)'
       /\ (TrumpChanges(Len(declarations))
             - TrumpChanges(Len(declarations) - ChaodiCount) <= 1)'
       /\ stage = "PLAY" => dominant_suit' = dominant_suit
      ]_vars

\* C16: the trump suit changes only in the step that accepts a declaration,
\* in the draw phase or as a counter-bid, each of which may change it (so it
\* can change more than twice); the dominant rank is fixed; no step taken
\* once PLAY has begun changes the trump suit.
C16_ChangesOnlyByDeclaration ==
    [][/\ dominant_suit' # dominant_suit
             => /\ last_call'.kind \in {"Declare", "Chaodi"}
                /\ Len(declarations') = Len(declarations) + 1
                /\ stage \in {"DECLARE", "CHAODI"}
                /\ stage' # "PLAY"
       /\ stage = "PLAY" => dominant_suit' = dominant_suit
      ]_vars

\* C16: play has begun after the trump suit changed three times.
C16_Witness ==
    /\ stage = "PLAY"
    /\ LastRound.moves # <<>>
    /\ TrumpChanges(Len(declarations)) = 3

\* The group a close-lead action claims: the open lead when there is one,
\* else the cards the call takes from the leader's hand.
ClaimedLead(p) ==
    IF LastRound.moves # <<>> THEN LastRound.moves[1]
    ELSE [c \in Cards |-> hands[p][c] - hands'[p][c]]

\* What C17 says of a close-lead call of seat p that claims `claimed`, whose
\* legal-combo check gives `legal` and the penalty move `penalty`.
LeadOutcome(p, claimed, played, over_claimed, legal) ==
    /\ status' = "ok"
    /\ next_player' = next_position(p)
    /\ reward' = IF legal THEN 0 ELSE -combo_penalty
    /\ round_history'[Len(round_history')].moves = <<played>>
    /\ \A c \in Cards :
          /\ hands'[p][c] = hands[p][c] - played[c]
          /\ unplayed_cards'[c] = unplayed_cards[c] - played[c]
          /\ over_claimed[c] >= 0
          /\ ~legal => public_cards'[p][c] >= over_claimed[c]
    /\ legal <=> size(over_claimed) = 0
    /\ \A q \in Seats \ {p} : hands'[q] = hands[q]

\* C17: a close-lead call never fails; when its group passes the legal-combo
\* check the whole group is led and leaves the hand with reward 0; when it
\* fails, the penalty move is led instead, exactly its cards leave the hand
\* and unplayed_cards, the reward is minus the combo penalty, and every
\* over-claimed card is then among the leader's public cards; either way the
\* leader's successor is next.
C17_IllegalComboPenalized ==
    [][last_call'.kind = "EndLead" =>
          LeadOutcome(last_call'.player,
                      ClaimedLead(last_call'.player),
                      IF is_legal_combo(ClaimedLead(last_call'.player),
                                        OtherHands(last_call'.player),
                                        dominant_suit, dominant_rank)
                      THEN ClaimedLead(last_call'.player)
                      ELSE penalty_move(ClaimedLead(last_call'.player),
                                        OtherHands(last_call'.player),
                                        dominant_suit, dominant_rank),
                      [c \in Cards |->
                          ClaimedLead(last_call'.player)[c]
                          - (hands[last_call'.player][c] - hands'[last_call'.player][c])],
                      is_legal_combo(ClaimedLead(last_call'.player),
                                     OtherHands(last_call'.player),
                                     dominant_suit, dominant_rank))]_vars

\* C17: a combo was cut down to its penalty move, and a card the leader
\* still holds became public by it.
C17_Witness ==
    /\ last_call.kind = "EndLead" /\ status = "ok"
    /\ reward = -combo_penalty
    /\ size(hands[last_call.player]) > 0
    /\ has_cardset(public_cards[last_call.player], hands[last_call.player])
    /\ next_player = next_position(last_call.player)

\* C18: writing into any part of an Observation (own hand, the card groups
\* of round_history, the counter-bid tally, the kitty, the perceived card
\* sets) leaves the state of the Game unchanged.
C18_ObservationIndependent ==
    [][last_call'.kind = "MutateObservation" => UNCHANGED gameVars]_vars

\* C19: of the hands of the other three seats, the Observation built for a
\* seat shows only cards that those seats have publicly revealed.
C19_OnlyPublicCards ==
    \A p \in Seats :
       (game_started /\ ~ObsRaises(p)) =>
          /\ has_cardset(Observation(p).perceived_left, Observation(p).actual_left)
          /\ has_cardset(Observation(p).perceived_right, Observation(p).actual_right)
          /\ has_cardset(Observation(p).perceived_opposite,
                         Observation(p).actual_opposite)

\* C20: the Observation built for any seat reports the defenders' total as
\* defender_points and the challengers' total as opponent_points.
C20_ScoresFaithful ==
    \A p \in Seats :
       (game_started /\ ~ObsRaises(p)) =>
          /\ Observation(p).defender_points = defender_points
          /\ Observation(p).opponent_points = opponent_points

\* The seat that holds the kitty: the latest accepted counter-bidder, or the
\* dealer, who received the last cards of the pack, when there is none.
KittyHolder ==
    IF ChaodiCount > 0 THEN declarations[Len(declarations)].absolute_position
    ELSE dealer_position

\* C21: from the KITTY stage onward the Observation built for a seat holds
\* the kitty's contents exactly when that seat is the current kitty holder,
\* however the dealer was decided.
C21_KittyShownToHolder ==
    \A p \in Seats :
       (stage # "DECLARE" /\ game_started /\ ~ObsRaises(p)) =>
          (Observation(p).kitty # <<>> <=> p = KittyHolder)

\* The rank and suit printed on the card at an index of ORDERING:
\* 'A', 'K', ..., '2' of diamonds, then of clubs, hearts and spades.
PrintedRank(card) == <<14, 13, 12, 11, 10, 9, 8, 7, 6, 5, 4, 3, 2>>[(card % 13) + 1]
PrintedSuit(card) ==
    IF card <= 12 THEN "D" ELSE IF card <= 25 THEN "C"
    ELSE IF card <= 38 THEN "H" ELSE "S"

\* C22: get_suit returns TRUMP exactly for a joker, a card of the dominant
\* rank and a card of the dominant suit, and the card's natural suit
\* otherwise; with a joker marker as dominant suit only jokers and cards of
\* the dominant rank are TRUMP.
C22_EffectiveSuit ==
    pure_call # <<>> =>
       /\ pure_call[1].get_suit = TRUMP
             <=> \/ pure_call[1].card \in {XJ, DJ}
                 \/ PrintedRank(pure_call[1].card) = pure_call[1].dominant_rank
                 \/ PrintedSuit(pure_call[1].card) = pure_call[1].dominant_suit
       /\ pure_call[1].get_suit # TRUMP
             => pure_call[1].get_suit = PrintedSuit(pure_call[1].card)
       /\ pure_call[1].dominant_suit \in {"XJ", "DJ"}
             => (pure_call[1].get_suit = TRUMP
                   <=> \/ pure_call[1].card \in {XJ, DJ}
                       \/ PrintedRank(pure_call[1].card) = pure_call[1].dominant_rank)

\* C22: the 5 of hearts asked about with no suit declared and dominant rank 5.
C22_Witness ==
    /\ pure_call # <<>>
    /\ pure_call[1].card = 35 /\ PrintedRank(35) = 5 /\ PrintedSuit(35) = "H"
    /\ pure_call[1].dominant_suit = "XJ" /\ pure_call[1].dominant_rank = 5
    /\ pure_call[1].get_suit = TRUMP

\* C23: get_rank gives the big joker 18, the small joker 17, a card of the
\* dominant rank 16 when it is of the dominant suit or the dominant suit is a
\* joker marker and 15 otherwise; any other card gets its natural rank plus
\* one when below the dominant rank and its natural rank when above, so the
\* twelve other ranks of the card's suit map one-to-one and in order onto
\* 3..14.
C23_EffectiveRank ==
    pure_call # <<>> =>
       /\ pure_call[1].get_rank =
             IF pure_call[1].card = DJ THEN 18
             ELSE IF pure_call[1].card = XJ THEN 17
             ELSE IF PrintedRank(pure_call[1].card) = pure_call[1].dominant_rank
             THEN IF PrintedSuit(pure_call[1].card) = pure_call[1].dominant_suit
                     \/ pure_call[1].dominant_suit \in {"XJ", "DJ"}
                  THEN 16 ELSE 15
             ELSE IF PrintedRank(pure_call[1].card) < pure_call[1].dominant_rank
             THEN PrintedRank(pure_call[1].card) + 1
             ELSE PrintedRank(pure_call[1].card)
       /\ {get_rank(c, pure_call[1].dominant_suit, pure_call[1].dominant_rank) :
              c \in {x \in 0..51 : PrintedRank(x) # pure_call[1].dominant_rank}} = 3..14
       /\ \A c, d \in {x \in 0..51 : /\ PrintedRank(x) # pure_call[1].dominant_rank
                                     /\ x \div 13 = pure_call[1].card \div 13} :
             PrintedRank(c) < PrintedRank(d)
                => get_rank(c, pure_call[1].dominant_suit, pure_call[1].dominant_rank)
                     < get_rank(d, pure_call[1].dominant_suit, pure_call[1].dominant_rank)

\* C23: the 4 of spades asked about with hearts as trump and dominant rank 5
\* ranks 5, one above its natural rank.
C23_Witness ==
    /\ pure_call # <<>>
    /\ pure_call[1].card = 49 /\ PrintedRank(49) = 4 /\ PrintedSuit(49) = "S"
    /\ pure_call[1].dominant_suit = "H" /\ pure_call[1].dominant_rank = 5
    /\ pure_call[1].get_rank = 5

\* The chaodi rank as the specification gives it: the place of the suit in
\* diamond < club < heart < spade < small joker < big joker for a pair, and
\* the lowest rank for a single card.
ChaodiRank(suit, level) ==
    IF level = 0 THEN 0
    ELSE CHOOSE i \in 1..6 : <<"D", "C", "H", "S", "XJ", "DJ">>[i] = suit

\* C24: every counter-bid in a seat's legal list has a chaodi rank strictly
\* above that of the standing declaration; chaodi_level is that rank for
\* every suit and level; so no single-card bid is offered and the accepted
\* counter-bids of a game have strictly increasing chaodi ranks.
C24_CounterBidEligibility ==
    /\ \A suit \in {"D", "C", "H", "S", "XJ", "DJ"}, level \in 0..3 :
          chaodi_level(suit, level) = ChaodiRank(suit, level)
    /\ \A p \in Seats : \A d \in ObsChaodiActions(p) :
          /\ d.level >= 1
          /\ ChaodiRank(d.suit, d.level)
               > ChaodiRank(declarations[Len(declarations)].suit,
                            declarations[Len(declarations)].level)
    /\ \A i \in (Len(declarations) - ChaodiCount + 1)..Len(declarations) :
          /\ i > 1
          /\ declarations[i].level >= 1
          /\ ChaodiRank(declarations[i].suit, declarations[i].level)
               > ChaodiRank(declarations[i - 1].suit, declarations[i - 1].level)

\* C24: after an accepted counter-bid, the seat asked next holds a single 2
\* it could bid at level 0, and is offered no counter-bid.
C24_Witness ==
    /\ stage = "CHAODI" /\ ChaodiCount >= 1
    /\ \E p \in Seats :
          /\ current_chaodi_turn = p
          /\ \E o \in trump_declaration_options(hands[p], dominant_rank) : o[2] = 0
          /\ ObsChaodiActions(p) = {}

\* What C25 says of a counter-bid of seat p with the declaration d, which
\* shows `count` copies of `card`.
CounterBidEffect(p, d, card, count) ==
    /\ status' = "ok"
    /\ d.absolute_position = p /\ d.level >= 1
    /\ declarations' = Append(declarations, d)
    /\ \A c \in Cards :
          /\ public_cards'[p][c] = public_cards[p][c] + (IF c = card THEN count ELSE 0)
          /\ hands'[p][c] = hands[p][c] + kitty[c]
          /\ kitty'[c] = 0
    /\ size(kitty) = KittySize /\ size(hands'[p]) = size(hands[p]) + KittySize
    /\ kitty_owner' = p
    /\ chaodi_times'[p] = chaodi_times[p] + 1
    /\ stage' = "KITTY" /\ next_player' = p
    /\ \A q \in Seats \ {p} :
          /\ hands'[q] = hands[q]
          /\ public_cards'[q] = public_cards[q]
          /\ chaodi_times'[q] = chaodi_times[q]
    /\ UNCHANGED <<dealer_position, round_history, opponent_points, defender_points>>

\* C25: an accepted counter-bid appends the bid to the declarations, adds
\* its two cards to the bidder's public cards, moves the whole kitty into
\* the bidder's hand, makes the bidder the kitty owner, adds one to that
\* seat's tally only, sets the stage to KITTY with the bidder next to act,
\* and leaves the other hands, the dealer, the round history and both point
\* totals as they were.
C25_CounterBidEffect ==
    [][last_call'.kind = "Chaodi" =>
          CounterBidEffect(last_call'.player,
                           declarations'[Len(declarations')],
                           CHOOSE c \in 0..53 :
                              IF declarations'[Len(declarations')].suit = "XJ" THEN c = XJ
                              ELSE IF declarations'[Len(declarations')].suit = "DJ"
                              THEN c = DJ
                              ELSE /\ c <= 51
                                   /\ PrintedRank(c) = dominant_rank
                                   /\ PrintedSuit(c)
                                        = declarations'[Len(declarations')].suit,
                           2)]_vars

\* C25: a seat other than the dealer took the kitty by a counter-bid and is
\* to discard.
C25_Witness ==
    /\ last_call.kind = "Chaodi" /\ status = "ok"
    /\ stage = "KITTY" /\ size(kitty) = 0
    /\ kitty_owner = last_call.player /\ kitty_owner # dealer_position
    /\ size(hands[kitty_owner]) = HandSize + KittySize
    /\ chaodi_times[kitty_owner] = 1

\* The natural suits of which a hand holds a card that is not trump.
SuitsHeld(hand) ==
    {x \in {"D", "C", "H", "S"} :
        \E c \in Cards : hand[c] > 0 /\ get_suit(c, dominant_suit, dominant_rank) = x}

\* The trump cards of a hand, counted.
TrumpHeld(hand) ==
    SumOver(hand, {c \in Cards : get_suit(c, dominant_suit, dominant_rank) = TRUMP})

\* The shaped reward of discarding `card` from `hand`, in tenths: +0.2 for a
\* natural suit emptied, -0.5 for a trump card, -1 more for a card of the
\* dominant rank or a joker.
ShapedReward(hand, hand_after, card) ==
    2 * (Cardinality(SuitsHeld(hand)) - Cardinality(SuitsHeld(hand_after)))
    - (IF TrumpHeld(hand_after) < TrumpHeld(hand) THEN 5 ELSE 0)
    - (IF card \in {XJ, DJ} \/ PrintedRank(card) = dominant_rank THEN 10 ELSE 0)

\* C26: every single-card kitty discard returns the shaped reward of that
\* discard, and the discarding seat is next to act while the kitty is short
\* of its full size.
C26_DiscardReward ==
    [][(last_call'.kind = "PlaceKitty" /\ status' = "ok") =>
          /\ \E card \in Cards :
                /\ kitty'[card] = kitty[card] + 1
                /\ reward' = ShapedReward(hands[last_call'.player],
                                          hands'[last_call'.player], card)
          /\ size(kitty') < KittySize => next_player' = last_call'.player
      ]_vars

\* How many copies of a card lie in the pack behind the dealt cards.
Undealt(c) == Cardinality({i \in (DealTotal + 1)..DeckSize : card_list[i] = c})

\* The pack is dealt out, nobody has declared, and the seat that received
\* the last dealt card passes for the first time since.
PassAfterLastCard ==
    /\ last_call'.kind = "DontDeclare" /\ status' = "ok"
    /\ stage = "DECLARE" /\ declarations = <<>>
    /\ HandsTotal = DealTotal /\ current_declaration_turn = None

\* The dealer receives the cards left in the pack at once and is to discard.
BatchToDealer ==
    /\ stage' = "KITTY"
    /\ dealer_position' \in Seats /\ next_player' = dealer_position'
    /\ deck_pos' = DeckSize
    /\ \A c \in Cards : hands'[dealer_position'][c] = hands[dealer_position'][c] + Undealt(c)
    /\ \A q \in Seats \ {dealer_position'} : hands'[q] = hands[q]

\* C27 as the specification states it: when nobody has declared, the pass
\* of the seat that received the last dealt card hands the rest of the pack
\* to the dealer and moves the stage to KITTY, with no further turn.
C27_BatchWithoutLap ==
    [][PassAfterLastCard => BatchToDealer]_vars

\* C27: when nobody has declared, the pass of the seat that received the
\* last dealt card opens one final lap of declarations at its successor and
\* deals nothing; while nobody declares, each pass of the lap hands the turn
\* to the next seat, and the fourth, by the seat that received the last
\* card, hands the rest of the pack to the dealer in one batch and moves
\* the stage to KITTY.
C27_BatchAfterFinalLap ==
    [][/\ PassAfterLastCard =>
             /\ stage' = "DECLARE" /\ hands' = hands /\ deck_pos' = deck_pos
             /\ last_call'.player = draw_order[Len(draw_order)][1]
             /\ initial_declaration_position' = next_position(last_call'.player)
             /\ current_declaration_turn' = next_position(last_call'.player)
             /\ next_player' = next_position(last_call'.player)
       /\ (last_call'.kind = "DontDeclare" /\ status' = "ok" /\ declarations = <<>>
             /\ current_declaration_turn # None) =>
             /\ last_call'.player = current_declaration_turn
             /\ IF last_call'.player = draw_order[Len(draw_order)][1]
                THEN BatchToDealer
                ELSE /\ stage' = "DECLARE" /\ hands' = hands
                     /\ current_declaration_turn' = next_position(last_call'.player)
                     /\ next_player' = next_position(last_call'.player)
       /\ (stage = "DECLARE" /\ stage' = "KITTY" /\ declarations' = <<>>) =>
             /\ last_call'.kind = "DontDeclare"
             /\ current_declaration_turn = draw_order[Len(draw_order)][1]
             /\ initial_declaration_position = next_position(current_declaration_turn)
      ]_vars

\* C27: nobody declared, the final lap was passed, and the dealer holds the
\* rest of the pack.
C27_Witness ==
    /\ stage = "KITTY" /\ declarations = <<>>
    /\ last_call.kind = "DontDeclare"
    /\ last_call.player = draw_order[Len(draw_order)][1]
    /\ size(hands[dealer_position]) = HandSize + KittySize

\* The seat whose declaration stands.
StandingDeclarer == declarations[Len(declarations)].absolute_position

\* C28: once the pack is dealt and a declaration stands, a declare action
\* restarts the lap at the overrider's successor; a seat asked in the lap is
\* never the standing declarer; and the stage becomes KITTY exactly on the
\* pass of the seat before the standing declarer, the third of three
\* consecutive passes of the other seats.
C28_ConfirmationLap ==
    [][/\ (last_call'.kind = "Declare" /\ status' = "ok" /\ HandsTotal = DealTotal) =>
             /\ stage' = "DECLARE"
             /\ current_declaration_turn' = next_position(last_call'.player)
             /\ next_player' = next_position(last_call'.player)
       /\ (stage' = "DECLARE" /\ status' = "ok" /\ declarations' # <<>>
             /\ current_declaration_turn' # None) =>
             /\ next_player' = current_declaration_turn'
             /\ next_player' # declarations'[Len(declarations')].absolute_position
       /\ (last_call'.kind = "DontDeclare" /\ status' = "ok" /\ declarations # <<>>
             /\ HandsTotal = DealTotal /\ stage = "DECLARE") =>
             (stage' = "KITTY"
                <=> /\ current_declaration_turn = last_call'.player
                    /\ last_call'.player = last_position(StandingDeclarer))
      ]_vars

\* C29: in CHAODI the seat asked is never the kitty holder; the step that
\* completes the kitty and opens CHAODI is the holder's and hands the turn
\* to the holder's successor, also after a counter-bid; a pass hands the
\* turn to the next seat, except the pass of the seat before the holder,
\* the third in a row, which alone moves the stage to PLAY.
C29_CounterBidLap ==
    [][/\ (stage' = "CHAODI" /\ status' = "ok") =>
             /\ next_player' = current_chaodi_turn'
             /\ next_player' # KittyHolder'
       /\ (stage = "KITTY" /\ stage' = "CHAODI") =>
             /\ size(kitty') = KittySize
             /\ last_call'.player = KittyHolder
             /\ next_player' = next_position(KittyHolder)
       /\ (last_call'.kind = "DontChaodi" /\ status' = "ok") =>
             /\ stage = "CHAODI" /\ last_call'.player # KittyHolder
             /\ IF last_call'.player = last_position(KittyHolder)
                THEN stage' = "PLAY"
                ELSE /\ stage' = "CHAODI"
                     /\ next_player' = next_position(last_call'.player)
       /\ (stage = "CHAODI" /\ stage' # "CHAODI") =>
             \/ last_call'.kind = "DontChaodi" /\ stage' = "PLAY"
             \/ last_call'.kind = "Chaodi" /\ stage' = "KITTY"
      ]_vars

\* C29: play began after a counter-bid, a re-formed kitty and a fresh lap of
\* three passes that ended at the seat before the new holder.
C29_Witness ==
    /\ stage = "PLAY" /\ ChaodiCount >= 1
    /\ last_call.kind = "DontChaodi"
    /\ last_call.player = last_position(KittyHolder)
    /\ KittyHolder # dealer_position

\* What C30 says of a pass or declaration of seat p while cards are still
\* to be dealt: the card at the front of the pack goes to p's successor.
DealsOne(p, card) ==
    /\ status' = "ok" /\ stage' = "DECLARE"
    /\ next_player' = next_position(p)
    /\ draw_order' = Append(draw_order, <<next_position(p), card>>)
    /\ \A c \in Cards :
          hands'[next_position(p)][c]
             = hands[next_position(p)][c] + (IF c = card THEN 1 ELSE 0)
    /\ \A q \in Seats \ {next_position(p)} : hands'[q] = hands[q]

\* C30: in DECLARE, while cards are still to be dealt, every pass and every
\* declaration deals the one card at the front of the pack to the actor's
\* successor, who acts next; no hand ever exceeds its full size before the
\* batch; the cards are dealt in pack order; on entering KITTY the dealer
\* holds a full hand plus the kitty, every other seat a full hand, and the
\* pack is empty.
C30_Dealing ==
    [][/\ (stage = "DECLARE" /\ HandsTotal < DealTotal /\ status' = "ok"
             /\ last_call'.kind \in {"DontDeclare", "Declare"}) =>
             DealsOne(last_call'.player, card_list[Len(draw_order) + 1])
       /\ stage' = "DECLARE" => \A q \in Seats : size(hands'[q]) <= HandSize
       /\ \A i \in 1..Len(draw_order') : draw_order'[i][2] = card_list[i]
       /\ Len(draw_order') <= DealTotal
       /\ (stage = "DECLARE" /\ stage' = "KITTY") =>
             /\ Len(draw_order') = DealTotal
             /\ deck_pos' = DeckSize
             /\ \A q \in Seats :
                   size(hands'[q]) = IF q = dealer_position'
                                     THEN HandSize + KittySize ELSE HandSize
      ]_vars

\* C30: a declaration was made in the middle of the draw, dealing went on,
\* and the dealer now holds the kitty cards too.
C30_Witness ==
    /\ stage = "KITTY" /\ last_call.kind = "DontDeclare"
    /\ declarations # <<>>
    /\ public_cards[declarations[1].absolute_position] # EmptyCardSet
    /\ Len(draw_order) = DealTotal
    /\ size(hands[dealer_position]) = HandSize + KittySize

\* The stage changes the engine makes.
StageChanges ==
    {<<"DECLARE", "KITTY">>, <<"KITTY", "CHAODI">>, <<"KITTY", "PLAY">>,
     <<"CHAODI", "KITTY">>, <<"CHAODI", "PLAY">>}

\* C31: the stage changes only along DECLARE->KITTY, KITTY->CHAODI,
\* KITTY->PLAY, CHAODI->KITTY (by an accepted counter-bid, and by nothing
\* else) and CHAODI->PLAY; the game ends only from PLAY; with counter-bidding
\* disabled the stage is never CHAODI and every counter-bid tally stays 0.
C31_StageTransitions ==
    [][/\ stage' # stage => <<stage, stage'>> \in StageChanges
       /\ (stage = "CHAODI" /\ stage' = "KITTY") <=> last_call'.kind = "Chaodi"
       /\ (game_ended' /\ ~game_ended) => (stage = "PLAY" /\ stage' = "PLAY")
       /\ ~enable_chaodi =>
             /\ stage' # "CHAODI"
             /\ \A p \in Seats : chaodi_times'[p] = 0
      ]_vars

\* C31: a game that went DECLARE, KITTY, CHAODI, KITTY again, CHAODI again
\* and PLAY has ended.
C31_Witness ==
    /\ game_ended /\ stage = "PLAY"
    /\ \E p \in Seats : chaodi_times[p] > 0

\* The passes left in a lap that stands at seat `turn` and closes when the
\* successor of the passing seat is `initial`.
PassesLeft(turn, initial) ==
    IF turn = None \/ initial = None THEN 5
    ELSE CHOOSE n \in 1..4 : next_position(SeatAfter(turn, n - 1)) = initial

\* The level and the counter-bid rank that stand.
StandingLevel == IF declarations = <<>> THEN -1 ELSE declarations[Len(declarations)].level
StandingRank ==
    IF declarations = <<>> THEN 0
    ELSE chaodi_level(declarations[Len(declarations)].suit,
                      declarations[Len(declarations)].level)

\* What is left of the open round: a start, two extensions and a close.
RoundLeft ==
    IF round_history = <<>> \/ LastRound.moves = <<>> THEN 5
    ELSE IF Len(LastRound.moves) = 1 THEN 4 - consecutive_moves
    ELSE 0

\* A variant of the game: the cards left in the hands and the rest of the
\* open round in PLAY; above that the counter-bid ranks left, the discards
\* left and the rest of the counter-bid lap; above that the cards left to
\* deal, the declaration levels left and the rest of the declaration lap.
PlayTop == 8 * DealTotal + 6
KittyTop == PlayTop + (KittySize + 6) * 8
Variant ==
    IF game_ended THEN 0
    ELSE IF stage = "PLAY" THEN 1 + 8 * HandsTotal + RoundLeft
    ELSE IF stage = "KITTY"
    THEN PlayTop + (KittySize + 6) * (7 - StandingRank) + 5 + (KittySize - size(kitty))
    ELSE IF stage = "CHAODI"
    THEN PlayTop + (KittySize + 6) * (7 - StandingRank)
            + PassesLeft(current_chaodi_turn, initial_chaodi_position)
    ELSE KittyTop + 30 * (DeckSize - deck_pos) + 6 * (3 - StandingLevel)
            + PassesLeft(current_declaration_turn, initial_declaration_position)

\* C32: a game driven by legal actions ends: no legal action raises, every
\* action lowers a natural-number variant that is 0 exactly when the game has
\* ended (an accepted declaration raises the standing level, an accepted
\* counter-bid raises the standing counter-bid rank, play empties the
\* hands), and in every state before the end the seat next to act is offered
\* at least one action.
C32_TerminationAndProgress ==
    /\ [](Running => ~ObsRaises(next_player))
    /\ [](status = "ok" /\ Variant \in Nat /\ (Variant = 0 <=> game_ended))
    /\ [][/\ Variant' < Variant
          /\ last_call'.kind = "Declare" => StandingLevel' > StandingLevel
          /\ last_call'.kind = "Chaodi" => StandingRank' > StandingRank
         ]_vars

\* C32: a game with a declaration, a counter-bid and compound leads has
\* ended with every hand empty.
C32_Witness ==
    /\ game_ended /\ Variant = 0 /\ HandsTotal = 0
    /\ Len(declarations) >= 2 /\ enable_combos

MayDeclare(suit, level, p) ==
    /\ <<suit, level>> \in trump_declaration_options(hands[p], dominant_rank)
    /\ \/ declarations = <<>>
       \/ /\ level > StandingLevel
          /\ \/ suit = declarations[Len(declarations)].suit
             \/ p # StandingDeclarer

LeadClosed(p, claimed, played) ==
    /\ has_cardset(claimed, played) /\ size(played) > 0
    /\ hands' = [hands EXCEPT ![p] = remove_cardset(@, played)]
    /\ unplayed_cards' = remove_cardset(unplayed_cards, played)

\* C35: a start or extend action changes the lead group recorded for the
\* open round and the extension counter, and nothing else: hands, unplayed
\* cards, public cards, point totals, the earlier rounds and the seat to act
\* stay as they are; the recorded group of an open lead is contained in the
\* leader's hand; the close action takes the group it records, a part of the
\* group claimed, out of the hand.
C35_LeadFrame ==
    /\ [](LeadOpen(next_player) =>
             /\ Len(LastRound.moves) = 1
             /\ has_cardset(hands[next_player], current_action))
    /\ [][/\ last_call'.kind \in {"Lead", "AppendLead"} =>
                /\ status' = "ok"
                /\ UNCHANGED <<cardVars, declVars, chaodiVars, scoreVars, configVars,
                               stage, next_player>>
                /\ Len(round_history') = Len(round_history)
                /\ \A i \in 1..Len(round_history) :
                      /\ round_history'[i].leader = round_history[i].leader
                      /\ i < Len(round_history) => round_history'[i] = round_history[i]
                /\ Len(round_history'[Len(round_history)].moves) = 1
                /\ LastRound.moves # <<>> =>
                      has_cardset(round_history'[Len(round_history)].moves[1],
                                  current_action)
          /\ (last_call'.kind = "EndLead" /\ status' = "ok") =>
                LeadClosed(next_player,
                           IF LastRound.moves = <<>>
                           THEN round_history'[Len(round_history)].moves[1]
                           ELSE current_action,
                           round_history'[Len(round_history)].moves[1])
         ]_vars

\* C35: a lead that was started and extended has been closed with a penalty:
\* less than the group claimed left the hand.
C35_Witness ==
    /\ last_call.kind = "EndLead" /\ reward < 0
    /\ consecutive_moves >= 2
    /\ Len(LastRound.moves) = 1
    /\ size(hands[LastRound.leader]) + size(LastRound.moves[1]) = LeadHandSize
    /\ size(LastRound.moves[1]) < consecutive_moves

\* C36: in a game created without a fixed dealer every declaration accepted
\* in DECLARE makes its bidder dealer and kitty owner, so the dealer is the
\* standing bidder, and with no declaration the dealer is unset until the
\* lap closes and one is chosen; in a game created with a fixed dealer the
\* dealer never changes; once DECLARE is left the dealer is a seat and never
\* changes, and an accepted counter-bid changes the kitty owner only.
C36_DealerAssignment ==
    /\ []((is_initial_game /\ stage = "DECLARE") =>
             dealer_position = IF declarations = <<>> THEN None ELSE StandingDeclarer)
    /\ [](stage # "DECLARE" => dealer_position \in Seats)
    /\ [][/\ (is_initial_game /\ last_call'.kind = "Declare") =>
                /\ status' = "ok"
                /\ dealer_position' = next_player
                /\ kitty_owner' = next_player
          /\ (is_initial_game /\ stage = "DECLARE" /\ stage' = "KITTY") =>
                IF declarations = <<>>
                THEN dealer_position = None /\ dealer_position' \in Seats
                ELSE dealer_position' = dealer_position
          /\ (~is_initial_game /\ game_started) =>
                (dealer_position' = dealer_position /\ dealer_position \in Seats)
          /\ stage # "DECLARE" => dealer_position' = dealer_position
          /\ last_call'.kind = "Chaodi" =>
                /\ kitty_owner' = next_player
                /\ dealer_position' = dealer_position
         ]_vars

\* C36: in a game created without a fixed dealer the standing bidder of the
\* draw became the dealer, another seat took the kitty by a counter-bid, and
\* play began with the dealer unchanged.
C36_Witness ==
    /\ is_initial_game /\ stage = "PLAY"
    /\ Len(declarations) >= 2
    /\ dealer_position = declarations[1].absolute_position
    /\ kitty_owner \in Seats \ {dealer_position}
    /\ kitty_owner = StandingDeclarer

\* C37: in every state, every seat's public card set is contained in the
\* seat's hand: no card is recorded as revealed in more copies than the seat
\* holds.
C37_PublicWithinHand ==
    \A p \in Seats : has_cardset(hands[p], public_cards[p])

====
